---- MODULE Spec2Model ----
(***************************************************************************)
(* Model of the wxauto bridge (src/wxauto-bridge/bridge.py and             *)
(* wechat_handler.py): the Gateway session kept by WeChatBridge.start and  *)
(* stop, the outbound request table of _send_request, and the dispatch of  *)
(* inbound frames by _message_loop and _handle_message.                    *)
(*                                                                         *)
(* Everything that runs on the asyncio event loop is a coroutine; a step   *)
(* of the model is the code a coroutine runs between two suspension points *)
(* (await of a connect, a sleep, a close handshake, the next frame, a      *)
(* future).  Synchronous backend calls belong to the step that makes them. *)
(***************************************************************************)
EXTENDS Integers, Sequences, FiniteSets, TLC

VARIABLES
    running,      \* self._running
    ws,           \* state of the connection self.ws holds: NONE, OPEN, CLOSING, CLOSED
    closeKind,    \* how that connection was closed: "ok" (clean) or "error"
    startPc,      \* where start() is suspended
    attempt,      \* loop variable of the initial connect attempts
    listenArg,    \* start()'s listen_chats argument, until it is consumed
    stopPc,       \* where stop() is suspended
    wx,           \* WeChatHandler._wx is set (backend connected)
    listenChats,  \* keys of WeChatHandler._listen_chats
    mediaUp,      \* the MediaServer holds a bound site
    pending,      \* self._pending_requests: id -> state of its future
    calls,        \* where each _send_request invocation is suspended
    serverPort,   \* MediaServer.port
    occupied,     \* the ports other processes held when MediaServer.start ran
    http,         \* the last exchange of the MediaServer: request and response
    listeners,    \* the ports the sites this MediaServer started still listen on
    stopAgain,    \* where a second stop() is suspended
    wxStatus,     \* WeChatHandler._status
    statusTasks,  \* the _push_status coroutines handed to the event loop, not yet run
    loopTasks,    \* the _push_message coroutines handed to the event loop, not yet run
    wire,         \* the frames that arrived on the connection and were not read yet
    handling,     \* the frame _handle_message is working on, when its handler is
                  \* inside a synchronous call
    arrivals,     \* how many frames have arrived (history)
    handled,      \* the arrival numbers of the frames _message_loop has taken up,
                  \* in that order (history)
    allowedDirs,  \* ALLOWED_FILE_DIRS: the directories files may be sent from
    eventLog,     \* the backend message events so far, each with what became of it
                  \* (history, read by the properties)
    last          \* what the last step did (history, read by the properties)

\* the state of the MediaServer beyond mediaUp, and of the event path
mediaVars == <<serverPort, occupied, http, listeners>>
eventVars == <<loopTasks, eventLog>>
statusVars == <<wxStatus, statusTasks>>
laneVars == <<wire, handling, arrivals, handled>>

vars == <<running, ws, closeKind, startPc, attempt, listenArg, stopPc, wx,
          listenChats, mediaUp, pending, calls, serverPort, occupied, http,
          listeners, stopAgain, wxStatus, statusTasks, loopTasks, eventLog,
          wire, handling, arrivals, handled, allowedDirs, last>>

----------------------------------------------------------------------------
(* Program constants *)

\* self._reconnect_delay
ReconnectDelay == 5
\* asyncio.sleep(2) between the initial attempts
InitialRetryDelay == 2
\* for attempt in range(3)
InitialAttempts == 3
\* media_port of WeChatBridge.__init__: the port both the WeChatHandler and
\* the MediaServer are constructed with
MediaPort == 18790
\* range(6) in MediaServer.start: the preferred port and 5 more
PortsTried == 6

(* Bounds of the model *)

\* number of _send_request invocations in a run
MaxCalls == 2
\* number of segments of a requested media path
MaxPathLen == 3
\* number of backend message events in a run
MaxEvents == 2
\* number of characters of a message's content
MaxContentLen == 4
\* number of listeners a MediaServer holds at once
MaxListeners == 2
\* number of frames that arrive on the wire in a run
MaxFrames == 2

----------------------------------------------------------------------------
(* JSON values that occur as the "id" of an envelope *)

JStr(s) == [t |-> "str", s |-> s, n |-> 0]
JNum(k) == [t |-> "num", s |-> "", n |-> k]
Absent == [t |-> "absent", s |-> "", n |-> 0]

\* Python truthiness of data.get("id"): None, "" and 0 are falsy
Truthy(v) ==
    CASE v.t = "str" -> v.s # ""
      [] v.t = "num" -> v.n # 0
      [] OTHER -> FALSE

\* str(uuid.uuid4()) of the k-th _send_request invocation: fresh every time
UuidNames == <<"u1", "u2", "u3", "u4">>
Uuid(k) == UuidNames[k]

----------------------------------------------------------------------------
(* Inbound frames.  A frame is the text the peer sent; json tells what     *)
(* json.loads makes of it: "invalid" (JSONDecodeError), "array" (valid     *)
(* JSON that is no object) or "object".  For an object the other fields    *)
(* give its keys; NoMethod stands for a missing "method".                  *)

NoMethod == "<none>"

\* params of a command.  dict = FALSE: "params" is not a JSON object.
\* A missing key and an empty value are both "" (both are falsy in the code).
Params(to, text, files, filePath, chat) ==
    [dict |-> TRUE, to |-> to, text |-> text, files |-> files,
     filePath |-> filePath, chat |-> chat]
NoParams == Params("", "", <<>>, "", "")
NotDict == [dict |-> FALSE, to |-> "", text |-> "", files |-> <<>>,
            filePath |-> "", chat |-> ""]

Frame(json, id, method, hasResult, hasError, params) ==
    [json |-> json, id |-> id, method |-> method, hasResult |-> hasResult,
     hasError |-> hasError, params |-> params]
Request(id, method, params) == Frame("object", id, method, FALSE, FALSE, params)
ResultResponse(id) == Frame("object", id, NoMethod, TRUE, FALSE, NoParams)
ErrorResponse(id) == Frame("object", id, NoMethod, FALSE, TRUE, NoParams)
InvalidJson == Frame("invalid", Absent, NoMethod, FALSE, FALSE, NoParams)
JsonArray == Frame("array", Absent, NoMethod, FALSE, FALSE, NoParams)
NoFrame == Frame("none", Absent, NoMethod, FALSE, FALSE, NoParams)

(* Outbound frames *)

\* a result: tag tells its shape, port is the port of the media URL it carries
NoResult == [tag |-> "none", ok |-> FALSE, error |-> "", port |-> 0]
OutFrame(kind, id, method, result, code, message) ==
    [kind |-> kind, id |-> id, method |-> method, result |-> result,
     code |-> code, message |-> message]

\* a notification: no id, a method and its params
Notification(method, params) ==
    [kind |-> "notification", id |-> Absent, method |-> method, params |-> params]

----------------------------------------------------------------------------
(* Text.  A str is a sequence of characters; the operators are Python's.   *)

\* t in s
Contains(s, t) ==
    \E i \in 1..(Len(s) - Len(t) + 1) : SubSeq(s, i, i + Len(t) - 1) = t

\* s.replace(t, ""): the occurrences of t found in one scan from the left,
\* none overlapping another, are removed
RECURSIVE Remove(_, _)
Remove(s, t) ==
    IF Len(s) < Len(t) \/ t = <<>> THEN s
    ELSE IF SubSeq(s, 1, Len(t)) = t THEN Remove(SubSeq(s, Len(t) + 1, Len(s)), t)
    ELSE <<Head(s)>> \o Remove(Tail(s), t)

\* s.strip()
RECURSIVE Strip(_)
Strip(s) ==
    IF s = <<>> THEN s
    ELSE IF Head(s) = " " THEN Strip(Tail(s))
    ELSE IF s[Len(s)] = " " THEN Strip(SubSeq(s, 1, Len(s) - 1))
    ELSE s

----------------------------------------------------------------------------
(* WeChatMessage.  media_url is kept as the port its URL names (0: None),  *)
(* media_path, file_name and file_size as whether they are set, voice_text *)
(* as its text (empty: None).  seq numbers the backend events.             *)

WeChatMessage(seq, content, type, self, atMe, group, path, url, name, size, voice) ==
    [seq |-> seq, content |-> content, msgType |-> type, isSelf |-> self,
     isAtMe |-> atMe, isGroup |-> group, mediaPath |-> path, mediaUrl |-> url,
     fileName |-> name, fileSize |-> size, voiceText |-> voice]

NoMessage ==
    WeChatMessage(0, <<>>, "none", FALSE, FALSE, FALSE, FALSE, 0, FALSE, FALSE, <<>>)

----------------------------------------------------------------------------
(* MediaServer.start *)

\* the for loop over ports_to_try from its i-th port on; occ are the ports
\* whose bind raises OSError.  self.port is assigned only after a bind.
\* The answer: the return value, self.port, the port bound (0: none) and
\* the ports tried.
RECURSIVE TryPorts(_, _, _, _)
TryPorts(port, i, occ, tried) ==
    IF i >= PortsTried
    THEN [ok |-> FALSE, port |-> port, bound |-> 0, tried |-> tried]
    ELSE IF port + i \in occ
    THEN TryPorts(port, i + 1, occ, Append(tried, port + i))
    ELSE [ok |-> TRUE, port |-> port + i, bound |-> port + i,
          tried |-> Append(tried, port + i)]

\* mutant of MediaServerStart: the bound port is not stored in self.port
MediaServerStartKeepsPort(port, occ) ==
    [TryPorts(port, 0, occ, <<>>) EXCEPT !.port = port]

MediaServerStart(port, occ) == TryPorts(port, 0, occ, <<>>)

NoStart == [ok |-> FALSE, port |-> 0, bound |-> 0, tried |-> <<>>]

\* MediaServer.stop, given whether self._site is a started site, the port it
\* listens on and the listeners held: the listeners left.  The listener of a
\* started site is closed; with no site, or a site that was stopped before,
\* nothing is closed (what a stopped site raises is caught inside stop)
MediaServerStop(up, port, held) == IF up THEN held \ {port} ELSE held

(* The record of the last step *)

Step(act) ==
    [act |-> act,
     began |-> FALSE,   \* a connect attempt was started
     slept |-> 0,       \* the sleep that ended right before that attempt
     frame |-> NoFrame, \* the inbound frame the step handled
     sent |-> <<>>,     \* the frames the step wrote to the connection
     backend |-> <<>>,  \* the WeChatHandler calls the step made and the wxauto
                        \* operations they invoked, each with its outcome
     result |-> NoResult,  \* what the command handler returned
     chatsBefore |-> {},   \* the listener set the command handler found
     media |-> NoStart, \* what MediaServer.start did
     msg |-> NoMessage, \* the WeChatMessage the step built or pushed
     caught |-> "",     \* the handler exception _handle_message caught, if any
     raised |-> "",     \* the exception _message_loop caught, if any
     call |-> 0,        \* the _send_request invocation the step belongs to
     outcome |-> ""]    \* how that invocation ended, if the step ended it

----------------------------------------------------------------------------
(* WeChatHandler: the operations start() and stop() use *)

\* an entry of the trace of backend operations: a WeChatHandler method the
\* bridge called (lower case) or a wxauto operation that method invoked,
\* with its argument and its outcome
Op(op, arg, ok, error) == [op |-> op, arg |-> arg, ok |-> ok, error |-> error]

\* the trace of a WeChatHandler method: its own entry, then what it invoked
Called(op, arg, ok, error, inner) == <<Op(op, arg, ok, error)>> \o inner

NotConnected == "wechat not connected"

\* mutant of SetStatus: the callback runs whether the status changes or not
SetStatusAlways(st, status) ==
    [status |-> status, tasks |-> Append(st.tasks, status)]

\* _set_status(status) with the callback _on_wechat_status, on a status
\* [status, tasks]: the callback runs, and hands a _push_status to the event
\* loop, only when the status changes
SetStatus(st, status) ==
    IF st.status = status THEN st
    ELSE [status |-> status, tasks |-> Append(st.tasks, status)]

\* connect(): the status after it; ok: WeChat() did not raise
WeChatConnect(st, ok) ==
    SetStatus(SetStatus(st, "connecting"), IF ok THEN "connected" ELSE "error")

\* disconnect(): the status after it
WeChatDisconnect(st) == SetStatus(st, "disconnected")

\* add_listener(chat_name); accepted is what AddListenChat answers.
\* The result: the new listener set, success, and the backend operations.
AddListener(chats, up, chat, accepted) ==
    IF ~up THEN [chats |-> chats, success |-> FALSE, error |-> NotConnected,
                 ops |-> Called("add_listener", chat, FALSE, NotConnected, <<>>)]
    ELSE IF chat \in chats
    THEN [chats |-> chats, success |-> TRUE, error |-> "",
          ops |-> Called("add_listener", chat, TRUE, "", <<>>)]
    ELSE IF accepted
    THEN [chats |-> chats \cup {chat}, success |-> TRUE, error |-> "",
          ops |-> Called("add_listener", chat, TRUE, "",
                         <<Op("AddListenChat", chat, TRUE, ""),
                           Op("StartListening", "", TRUE, "")>>)]
    ELSE [chats |-> chats, success |-> FALSE, error |-> "add listen failed",
          ops |-> Called("add_listener", chat, FALSE, "add listen failed",
                         <<Op("AddListenChat", chat, FALSE, "")>>)]

\* the for loop over listen_chats in start()
RECURSIVE AddListeners(_, _, _, _)
AddListeners(chats, up, names, accepted) ==
    IF names = <<>> THEN chats
    ELSE AddListeners(AddListener(chats, up, Head(names), Head(names) \in accepted).chats,
                      up, Tail(names), accepted)

----------------------------------------------------------------------------
(* The connection *)

\* the thread of the event loop is inside a handler: the coroutines of
\* bridge.py make their backend calls synchronously, so until the handler
\* is through no other coroutine runs and the connection's state, which the
\* loop keeps, does not change
Busy == handling # NoFrame

\* _is_ws_connected
IsWsConnected == ws = "OPEN"

\* WeChatHandler.get_media_port: self._media_port, set at construction
GetMediaPort == MediaPort

\* _send_connected_notification: the frame it writes
ConnectedNotification ==
    Notification("wechat.connected", [online |-> wx, mediaPort |-> GetMediaPort])

\* the listen_chats arguments start() is called with
ListenArgs == {<<>>, <<"A">>}

----------------------------------------------------------------------------
(* WeChatBridge.start *)

\* mutant of Start: start() gives up when the MediaServer did not start
StartNeedsMedia(occ, wxOk, chats) ==
    LET m == MediaServerStart(serverPort, occ \cup listeners)
        held == listeners \cup (IF m.ok THEN {m.bound} ELSE {})
        st == WeChatConnect([status |-> wxStatus, tasks |-> statusTasks], wxOk)
    IN
    /\ startPc = "idle"
    /\ running' = TRUE
    /\ wx' = wxOk
    /\ wxStatus' = st.status
    /\ statusTasks' = st.tasks
    /\ serverPort' = m.port
    /\ occupied' = occ
    /\ IF wxOk /\ m.ok
       THEN /\ mediaUp' = m.ok
            /\ listeners' = held
            /\ startPc' = "init_connecting"
            /\ listenArg' = chats
            /\ last' = [Step("Start") EXCEPT !.began = TRUE, !.media = m]
       ELSE /\ mediaUp' = FALSE
            /\ listeners' = MediaServerStop(m.ok, m.port, held)
            /\ startPc' = "returned"
            /\ listenArg' = <<>>
            /\ last' = [Step("Start") EXCEPT !.media = m]
    /\ attempt' = 0
    /\ UNCHANGED <<ws, closeKind, stopPc, listenChats, pending, calls,
                   http, eventVars, stopAgain, laneVars, allowedDirs>>

\* start() up to its first connect() to the Gateway.  occ: the ports other
\* processes hold; wxOk: wechat.connect() succeeded; chats: the listen_chats
\* argument
Start(occ, wxOk, chats) ==
    LET m == MediaServerStart(serverPort, occ \cup listeners)
        held == listeners \cup (IF m.ok THEN {m.bound} ELSE {})
        st == WeChatConnect([status |-> wxStatus, tasks |-> statusTasks], wxOk)
    IN
    /\ startPc = "idle"
    /\ running' = TRUE
    /\ wx' = wxOk
    /\ wxStatus' = st.status
    /\ statusTasks' = st.tasks
    /\ serverPort' = m.port
    /\ occupied' = occ
    /\ IF wxOk
       THEN /\ mediaUp' = m.ok
            /\ listeners' = held
            /\ startPc' = "init_connecting"
            /\ listenArg' = chats
            /\ last' = [Step("Start") EXCEPT !.began = TRUE, !.media = m]
       ELSE /\ mediaUp' = FALSE
            /\ listeners' = MediaServerStop(m.ok, m.port, held)
            /\ startPc' = "returned"
            /\ listenArg' = <<>>
            /\ last' = [Step("Start") EXCEPT !.media = m]
    /\ attempt' = 0
    /\ UNCHANGED <<ws, closeKind, stopPc, listenChats, pending, calls,
                   http, eventVars, stopAgain, laneVars, allowedDirs>>

\* mutant of AfterInitialAttempts: the first connection is not announced
AfterInitialAttemptsSilent(firstConnect, act, sleptBefore) ==
    /\ \E accepted \in SUBSET {listenArg[i] : i \in 1..Len(listenArg)} :
           listenChats' = AddListeners(listenChats, wx, listenArg, accepted)
    /\ listenArg' = <<>>
    /\ IF firstConnect
       THEN /\ startPc' = "first_loop"
            /\ last' = Step(act)
       ELSE IF running
       THEN /\ startPc' = "connecting"
            /\ last' = [Step(act) EXCEPT !.began = TRUE, !.slept = sleptBefore]
       ELSE /\ startPc' = "returned"
            /\ last' = Step(act)

\* the code after the initial attempts, up to the next suspension:
\* add the listeners, then either notify and read (first_connect) or enter
\* the reconnect loop, whose first statement is "while self._running"
AfterInitialAttempts(firstConnect, act, sleptBefore) ==
    /\ \E accepted \in SUBSET {listenArg[i] : i \in 1..Len(listenArg)} :
           listenChats' = AddListeners(listenChats, wx, listenArg, accepted)
    /\ listenArg' = <<>>
    /\ IF firstConnect
       THEN /\ startPc' = "first_loop"
            /\ last' = [Step(act) EXCEPT !.sent = <<ConnectedNotification>>]
       ELSE IF running
       THEN /\ startPc' = "connecting"
            /\ last' = [Step(act) EXCEPT !.began = TRUE, !.slept = sleptBefore]
       ELSE /\ startPc' = "returned"
            /\ last' = Step(act)

\* an initial connect() returns
InitConnectDone ==
    /\ startPc = "init_connecting"
    /\ ~Busy
    /\ \E ok \in BOOLEAN :
        IF ok
        THEN /\ ws' = "OPEN"
             /\ closeKind' = "none"
             /\ AfterInitialAttempts(TRUE, "InitConnectDone", 0)
             /\ UNCHANGED attempt
        ELSE /\ startPc' = "init_sleep"
             /\ last' = Step("InitConnectDone")
             /\ UNCHANGED <<ws, closeKind, attempt, listenArg, listenChats>>
    /\ UNCHANGED <<running, stopPc, wx, mediaUp, pending, calls,
                   mediaVars, eventVars, statusVars, stopAgain, laneVars, allowedDirs>>

\* asyncio.sleep(2) after a failed initial attempt ends
InitSleepDone ==
    /\ startPc = "init_sleep"
    /\ ~Busy
    /\ attempt' = attempt + 1
    /\ IF attempt + 1 < InitialAttempts
       THEN /\ startPc' = "init_connecting"
            /\ last' = [Step("InitSleepDone") EXCEPT !.began = TRUE,
                                                     !.slept = InitialRetryDelay]
            /\ UNCHANGED <<listenArg, listenChats>>
       ELSE AfterInitialAttempts(FALSE, "InitSleepDone", InitialRetryDelay)
    /\ UNCHANGED <<running, ws, closeKind, stopPc, wx, mediaUp, pending, calls,
                   mediaVars, eventVars, statusVars, stopAgain, laneVars, allowedDirs>>

\* "while self._running", evaluated after `slept` seconds of sleep
LoopHead(act, sleptBefore) ==
    IF running
    THEN /\ startPc' = "connecting"
         /\ last' = [Step(act) EXCEPT !.began = TRUE, !.slept = sleptBefore]
    ELSE /\ startPc' = "returned"
         /\ last' = Step(act)

\* connect() in the reconnect loop returns
ConnectDone ==
    /\ startPc = "connecting"
    /\ ~Busy
    /\ \E ok \in BOOLEAN :
        IF ok
        THEN /\ ws' = "OPEN"
             /\ closeKind' = "none"
             /\ startPc' = "loop"
             /\ last' = [Step("ConnectDone") EXCEPT !.sent = <<ConnectedNotification>>]
        ELSE /\ startPc' = "sleep"
             /\ last' = Step("ConnectDone")
             /\ UNCHANGED <<ws, closeKind>>
    /\ UNCHANGED <<running, attempt, listenArg, stopPc, wx, listenChats, mediaUp,
                   pending, calls,
                   mediaVars, eventVars, statusVars, stopAgain, laneVars, allowedDirs>>

\* asyncio.sleep(self._reconnect_delay) ends
SleepDone ==
    /\ startPc = "sleep"
    /\ ~Busy
    /\ LoopHead("SleepDone", ReconnectDelay)
    /\ UNCHANGED <<running, ws, closeKind, attempt, listenArg, stopPc, wx,
                   listenChats, mediaUp, pending, calls,
                   mediaVars, eventVars, statusVars, stopAgain, laneVars, allowedDirs>>

\* mutant of LoopEnd: the read loop ends while the connection is still up
LoopEndWhileUp ==
    /\ startPc \in {"first_loop", "loop"}
    /\ IF startPc = "loop" /\ closeKind = "error" /\ running
       THEN /\ startPc' = "sleep"
            /\ last' = Step("LoopEnd")
       ELSE LoopHead("LoopEnd", 0)
    /\ UNCHANGED <<running, ws, closeKind, attempt, listenArg, stopPc, wx,
                   listenChats, mediaUp, pending, calls,
                   mediaVars, eventVars, statusVars, stopAgain, laneVars, allowedDirs>>

\* mutant of LoopEnd: ConnectionClosed is not caught by start()
LoopEndPropagates ==
    /\ startPc \in {"first_loop", "loop"}
    /\ ws = "CLOSED"
    /\ IF closeKind = "error"
       THEN /\ startPc' = "returned"
            /\ last' = Step("LoopEnd")
       ELSE LoopHead("LoopEnd", 0)
    /\ UNCHANGED <<running, ws, closeKind, attempt, listenArg, stopPc, wx,
                   listenChats, mediaUp, pending, calls,
                   mediaVars, eventVars, statusVars, stopAgain, laneVars, allowedDirs>>

\* "async for message in self.ws" ends: the connection is closed and the
\* frames that arrived on it have been read.  A clean close ends the
\* iteration, any other close raises ConnectionClosed.
LoopEnd ==
    /\ startPc \in {"first_loop", "loop"}
    /\ ~Busy
    /\ ws = "CLOSED"
    /\ wire = <<>>
    /\ IF startPc = "loop" /\ closeKind = "error" /\ running
       THEN /\ startPc' = "sleep"
            /\ last' = Step("LoopEnd")
       ELSE LoopHead("LoopEnd", 0)
    /\ UNCHANGED <<running, ws, closeKind, attempt, listenArg, stopPc, wx,
                   listenChats, mediaUp, pending, calls,
                   mediaVars, eventVars, statusVars, stopAgain, laneVars, allowedDirs>>

----------------------------------------------------------------------------
(* WeChatBridge.stop *)

\* media_server.stop() and wechat.disconnect()
StopEffects ==
    LET st == WeChatDisconnect([status |-> wxStatus, tasks |-> statusTasks]) IN
    /\ mediaUp' = FALSE
    /\ listeners' = MediaServerStop(mediaUp, serverPort, listeners)
    /\ wx' = FALSE
    /\ wxStatus' = st.status
    /\ statusTasks' = st.tasks

\* the end of stop()
StopTail ==
    /\ StopEffects
    /\ stopPc' = "done"

\* stop() up to the close handshake
StopBegin ==
    /\ stopPc = "idle"
    /\ ~Busy
    /\ startPc # "idle"
    /\ running' = FALSE
    /\ IF ws = "OPEN"
       THEN /\ ws' = "CLOSING"
            /\ stopPc' = "closing"
            /\ UNCHANGED <<wx, mediaUp, listeners, statusVars>>
       ELSE /\ StopTail
            /\ UNCHANGED ws
    /\ last' = Step("StopBegin")
    /\ UNCHANGED <<closeKind, startPc, attempt, listenArg, listenChats, pending, calls,
                   serverPort, occupied, http, eventVars, stopAgain,
                   laneVars, allowedDirs>>

\* self.ws.close() returns
StopClosed ==
    /\ stopPc = "closing"
    /\ ~Busy
    /\ ws = "CLOSED"
    /\ StopTail
    /\ last' = Step("StopClosed")
    /\ UNCHANGED <<running, ws, closeKind, startPc, attempt, listenArg, listenChats,
                   pending, calls,
                   serverPort, occupied, http, eventVars, stopAgain,
                   laneVars, allowedDirs>>

\* a second stop() (main() calls stop() from its signal handler and again
\* from its finally clause), up to the close handshake: close() on a
\* connection that is closing waits for the handshake under way
StopAgainBegin ==
    /\ stopPc # "idle"
    /\ ~Busy
    /\ stopAgain = "idle"
    /\ running' = FALSE
    /\ IF ws \in {"OPEN", "CLOSING"}
       THEN /\ ws' = "CLOSING"
            /\ stopAgain' = "closing"
            /\ UNCHANGED <<wx, mediaUp, listeners, statusVars>>
       ELSE /\ StopEffects
            /\ stopAgain' = "done"
            /\ UNCHANGED ws
    /\ last' = Step("StopAgainBegin")
    /\ UNCHANGED <<closeKind, startPc, attempt, listenArg, stopPc, listenChats,
                   pending, calls, serverPort, occupied, http, eventVars,
                   laneVars, allowedDirs>>

\* self.ws.close() of the second stop() returns
StopAgainClosed ==
    /\ stopAgain = "closing"
    /\ ~Busy
    /\ ws = "CLOSED"
    /\ StopEffects
    /\ stopAgain' = "done"
    /\ last' = Step("StopAgainClosed")
    /\ UNCHANGED <<running, ws, closeKind, startPc, attempt, listenArg, stopPc,
                   listenChats, pending, calls, serverPort, occupied, http, eventVars,
                   laneVars, allowedDirs>>

----------------------------------------------------------------------------
(* The peer and the network *)

\* the connection ends: the peer closes it or answers our close (clean), or
\* it breaks (I/O error, missed pong)
ConnectionLost ==
    /\ ws \in {"OPEN", "CLOSING"}
    /\ ~Busy
    /\ ws' = "CLOSED"
    /\ \E kind \in {"ok", "error"} : closeKind' = kind
    /\ last' = Step("ConnectionLost")
    /\ UNCHANGED <<running, startPc, attempt, listenArg, stopPc, wx, listenChats,
                   mediaUp, pending, calls,
                   mediaVars, eventVars, statusVars, stopAgain, laneVars, allowedDirs>>

----------------------------------------------------------------------------
(* MediaServer._handle_media.  A path is the sequence of its segments; an  *)
(* inode is named by its canonical absolute path.  The filesystem the      *)
(* server runs on:                                                         *)
(*     /m          the media root       /m/d/g   a file                    *)
(*     /m/f        a file               /m/l     a symlink to /s           *)
(*     /m/d        a directory          /s       a file outside the root   *)

MediaRoot == <<"m">>
Missing == <<"?">>

Kind(inode) ==
    CASE inode \in {<<>>, <<"m">>, <<"m", "d">>} -> "dir"
      [] inode \in {<<"m", "f">>, <<"m", "d", "g">>, <<"s">>} -> "file"
      [] inode = <<"m", "l">> -> "link"
      [] OTHER -> "none"

LinkTarget(inode) == <<"s">>

Parent(inode) == IF inode = <<>> THEN <<>> ELSE SubSeq(inode, 1, Len(inode) - 1)

\* the segments a request path may hold; "/" is an empty segment, which at the
\* head of the path makes it absolute
Segments == {"..", "/", "f", "d", "g", "l", "s", "m"}

\* self.media_dir / path
Join(dir, path) == IF path # <<>> /\ Head(path) = "/" THEN path ELSE dir \o path

\* Path.resolve(): symlinks are followed, ".." drops the last component of
\* what is resolved so far, a component that does not exist is kept
RECURSIVE Resolve(_, _)
Resolve(cur, segs) ==
    IF segs = <<>> THEN cur
    ELSE IF Head(segs) = "/" THEN Resolve(cur, Tail(segs))
    ELSE IF Head(segs) = ".." THEN Resolve(Parent(cur), Tail(segs))
    ELSE IF Kind(Append(cur, Head(segs))) = "link"
    THEN Resolve(LinkTarget(Append(cur, Head(segs))), Tail(segs))
    ELSE Resolve(Append(cur, Head(segs)), Tail(segs))

\* the inode the operating system reaches for a path (exists, is_file,
\* open): every component but the last must be an existing directory
RECURSIVE Walk(_, _)
Walk(cur, segs) ==
    IF segs = <<>> THEN cur
    ELSE IF Kind(cur) # "dir" THEN Missing
    ELSE IF Head(segs) = "/" THEN Walk(cur, Tail(segs))
    ELSE IF Head(segs) = ".." THEN Walk(Parent(cur), Tail(segs))
    ELSE IF Kind(Append(cur, Head(segs))) = "link"
    THEN Walk(LinkTarget(Append(cur, Head(segs))), Tail(segs))
    ELSE IF Kind(Append(cur, Head(segs))) = "none" THEN Missing
    ELSE Walk(Append(cur, Head(segs)), Tail(segs))

\* relative_to(root) does not raise ValueError
IsUnder(path, root) == Len(path) >= Len(root) /\ SubSeq(path, 1, Len(root)) = root

\* a request and the response to it: the route the router matched and the
\* path it extracted, the status, whether a file was opened and which, the
\* Content-Type, Cache-Control and Access-Control-Allow-Origin headers
\* ("": not set), and whether the handler raised the response (an
\* HTTPException of the framework) instead of returning it.
\* web.Response(status=..., text=...) is text/plain and sets no other header
Exchange(path, status, opened, file) ==
    [route |-> "media", path |-> path, status |-> status, opened |-> opened,
     file |-> file, contentType |-> "text/plain", cache |-> "", cors |-> "",
     raised |-> FALSE]
NoExchange == Exchange(<<>>, 0, FALSE, Missing)

\* file_path.name: the last component of the path as it was written
RECURSIVE Name(_)
Name(path) ==
    IF path = <<>> THEN ""
    ELSE IF path[Len(path)] = "/" THEN Name(SubSeq(path, 1, Len(path) - 1))
    ELSE path[Len(path)]

\* mimetypes.guess_type: "f" stands for a name with an extension of the
\* table, every other name has none
GuessType(name) == IF name = "f" THEN "image/png" ELSE "None"

\* content_type of _handle_media
ContentType(file_path) ==
    IF GuessType(Name(file_path)) = "None" THEN "application/octet-stream"
    ELSE GuessType(Name(file_path))

\* the response that carries the file
FileResponse(path, file_path, target) ==
    [Exchange(path, 200, TRUE, target) EXCEPT !.contentType = ContentType(file_path),
                                              !.cache = "public, max-age=3600"]

\* mutant of MediaResponse: the path is looked up before it is checked
MediaResponseExistsFirst(path) ==
    LET file_path == Join(MediaRoot, path)
        target == Walk(<<>>, file_path)
    IN  IF Kind(target) = "none" THEN Exchange(path, 404, FALSE, Missing)
        ELSE IF ~IsUnder(Resolve(<<>>, file_path), Resolve(<<>>, MediaRoot))
        THEN Exchange(path, 403, FALSE, Missing)
        ELSE IF Kind(target) # "file" THEN Exchange(path, 400, FALSE, Missing)
        ELSE FileResponse(path, file_path, target)

\* mutant of MediaResponse: the path is checked as written, not resolved
MediaResponseUnresolved(path) ==
    LET file_path == Join(MediaRoot, path)
        target == Walk(<<>>, file_path)
    IN  IF \/ ~IsUnder(file_path, MediaRoot)
           \/ \E i \in 1..Len(file_path) : file_path[i] = ".."
        THEN Exchange(path, 403, FALSE, Missing)
        ELSE IF Kind(target) = "none" THEN Exchange(path, 404, FALSE, Missing)
        ELSE IF Kind(target) # "file" THEN Exchange(path, 400, FALSE, Missing)
        ELSE FileResponse(path, file_path, target)

\* _handle_media: the response to GET /media/{path} and the file it read
MediaResponse(path) ==
    LET file_path == Join(MediaRoot, path)
        target == Walk(<<>>, file_path)
    IN  IF ~IsUnder(Resolve(<<>>, file_path), Resolve(<<>>, MediaRoot))
        THEN Exchange(path, 403, FALSE, Missing)
        ELSE IF Kind(target) = "none" THEN Exchange(path, 404, FALSE, Missing)
        ELSE IF Kind(target) # "file" THEN Exchange(path, 400, FALSE, Missing)
        ELSE FileResponse(path, file_path, target)

\* _handle_health
HealthResponse ==
    [Exchange(<<>>, 200, FALSE, Missing) EXCEPT !.route = "health",
                                                !.contentType = "application/json"]

\* a request that matches neither route added in start(): the framework's
\* handler for it raises HTTPNotFound
NotFoundRaised ==
    [Exchange(<<>>, 404, FALSE, Missing) EXCEPT !.route = "none", !.raised = TRUE]

\* _cors_middleware around a handler's outcome: the headers are set on the
\* response the handler returned; a response the handler raised passes
\* through the middleware as the exception it is
CorsMiddleware(response) ==
    IF response.raised THEN response ELSE [response EXCEPT !.cors = "*"]

\* the server answers a GET /media/{path}
HandleMedia(path) ==
    /\ mediaUp
    /\ ~Busy
    /\ http' = CorsMiddleware(MediaResponse(path))
    /\ last' = Step("HandleMedia")
    /\ UNCHANGED <<running, ws, closeKind, startPc, attempt, listenArg, stopPc, wx,
                   listenChats, mediaUp, pending, calls, serverPort, occupied,
                   listeners, eventVars, statusVars, stopAgain, laneVars, allowedDirs>>

\* the server answers a request for another route: "health", or "none" when
\* no route matches
HandleOther(route) ==
    /\ mediaUp
    /\ ~Busy
    /\ http' = CorsMiddleware(IF route = "health" THEN HealthResponse ELSE NotFoundRaised)
    /\ last' = Step("HandleOther")
    /\ UNCHANGED <<running, ws, closeKind, startPc, attempt, listenArg, stopPc, wx,
                   listenChats, mediaUp, pending, calls, serverPort, occupied,
                   listeners, eventVars, statusVars, stopAgain, laneVars, allowedDirs>>

\* start() of a MediaServer that is used on its own; occ: the ports other
\* processes hold.  A port one of its own sites listens on is in use as well
ServerStart(occ) ==
    LET m == MediaServerStart(serverPort, occ \cup listeners) IN
    /\ startPc = "idle"
    /\ Cardinality(listeners) < MaxListeners
    /\ serverPort' = m.port
    /\ occupied' = occ
    /\ mediaUp' = m.ok
    /\ listeners' = listeners \cup (IF m.ok THEN {m.bound} ELSE {})
    /\ last' = [Step("ServerStart") EXCEPT !.media = m]
    /\ UNCHANGED <<running, ws, closeKind, startPc, attempt, listenArg, stopPc, wx,
                   listenChats, pending, calls, http, eventVars, statusVars, stopAgain,
                   laneVars, allowedDirs>>

\* stop() of a MediaServer that is used on its own
ServerStop ==
    /\ startPc = "idle"
    /\ mediaUp' = FALSE
    /\ listeners' = MediaServerStop(mediaUp, serverPort, listeners)
    /\ last' = Step("ServerStop")
    /\ UNCHANGED <<running, ws, closeKind, startPc, attempt, listenArg, stopPc, wx,
                   listenChats, pending, calls, serverPort, occupied, http, eventVars,
                   statusVars, stopAgain, laneVars, allowedDirs>>

----------------------------------------------------------------------------
(* WeChatBridge._send_request.  Invocation c uses the id Uuid(c).          *)

EmptyTable == [i \in {} |-> "pending"]

\* self._pending_requests[request_id] = future
Register(table, id) == [i \in DOMAIN table \cup {id} |->
                            IF i = id THEN "pending" ELSE table[i]]

\* self._pending_requests.pop(request_id, None)
Pop(table, id) == [i \in DOMAIN table \ {id} |-> table[i]]

\* mutant of CallEnds: the table entry is not removed when the call ends
CallEndsWithoutPop(c) ==
    /\ pending' = pending
    /\ calls' = [calls EXCEPT ![c] = "done"]

\* the call ends (it returns or raises): the finally clause runs
CallEnds(c) ==
    /\ pending' = Pop(pending, Uuid(c))
    /\ calls' = [calls EXCEPT ![c] = "done"]

RequestFrame(c) == OutFrame("request", JStr(Uuid(c)), "call", NoResult, 0, "")

\* _send_request up to "await self.ws.send": the connection check, the
\* fresh id, the registration of the future and the write of the frame
CallBegin(c) ==
    /\ calls[c] = "idle"
    /\ ~Busy
    /\ startPc # "idle"
    /\ \A d \in 1..(c - 1) : calls[d] # "idle"
    /\ IF ~IsWsConnected
       THEN /\ calls' = [calls EXCEPT ![c] = "done"]
            /\ last' = [Step("CallBegin") EXCEPT !.call = c, !.outcome = "NotConnected"]
            /\ UNCHANGED pending
       ELSE /\ pending' = Register(pending, Uuid(c))
            /\ calls' = [calls EXCEPT ![c] = "sending"]
            /\ last' = [Step("CallBegin") EXCEPT !.call = c, !.sent = <<RequestFrame(c)>>]
    /\ UNCHANGED <<running, ws, closeKind, startPc, attempt, listenArg, stopPc, wx,
                   listenChats, mediaUp,
                   mediaVars, eventVars, statusVars, stopAgain, laneVars, allowedDirs>>

\* "await self.ws.send" returns, or raises ConnectionClosed when the
\* connection went down before the frame was flushed
CallSent(c) ==
    /\ calls[c] = "sending"
    /\ ~Busy
    /\ IF ws = "OPEN"
       THEN /\ calls' = [calls EXCEPT ![c] = "waiting"]
            /\ last' = [Step("CallSent") EXCEPT !.call = c]
            /\ UNCHANGED pending
       ELSE /\ CallEnds(c)
            /\ last' = [Step("CallSent") EXCEPT !.call = c, !.outcome = "ConnectionClosed"]
    /\ UNCHANGED <<running, ws, closeKind, startPc, attempt, listenArg, stopPc, wx,
                   listenChats, mediaUp,
                   mediaVars, eventVars, statusVars, stopAgain, laneVars, allowedDirs>>

\* mutant of CallTimeout: the future is awaited without a timeout
CallWithoutTimeout(c) ==
    /\ FALSE
    /\ UNCHANGED vars

\* asyncio.wait_for: the timeout elapses before the future is done
CallTimeout(c) ==
    /\ calls[c] = "waiting"
    /\ ~Busy
    /\ pending[Uuid(c)] = "pending"
    /\ CallEnds(c)
    /\ last' = [Step("CallTimeout") EXCEPT !.call = c, !.outcome = "TimeoutError"]
    /\ UNCHANGED <<running, ws, closeKind, startPc, attempt, listenArg, stopPc, wx,
                   listenChats, mediaUp,
                   mediaVars, eventVars, statusVars, stopAgain, laneVars, allowedDirs>>

\* asyncio.wait_for returns the result the future was given
CallReturn(c) ==
    /\ calls[c] = "waiting"
    /\ ~Busy
    /\ pending[Uuid(c)] = "done"
    /\ CallEnds(c)
    /\ last' = [Step("CallReturn") EXCEPT !.call = c, !.outcome = "result"]
    /\ UNCHANGED <<running, ws, closeKind, startPc, attempt, listenArg, stopPc, wx,
                   listenChats, mediaUp,
                   mediaVars, eventVars, statusVars, stopAgain, laneVars, allowedDirs>>

----------------------------------------------------------------------------
(* WeChatHandler: the operations the command handlers use.  What the       *)
(* desktop client answers is the oracle o of the step:                     *)
(*   o.msgFails   how many SendMsg attempts fail before one succeeds       *)
(*   o.fileFails  the paths whose SendFiles fails                          *)
(*   o.accepted   whether AddListenChat returns a subscription             *)

\* max_retries of send_message
MaxRetries == 3

ValidPaths == {"a.png", "b.png"}

\* The files a path may name:
\*   a.png, b.png   regular files of the directory "ok"
\*   out.png        a regular file of the directory "other"
\*   a..png         a regular file of "ok" whose name holds ".."
\*   folder         a directory
\* and nothing exists at any other path
FileKind(path) ==
    CASE path \in {"a.png", "b.png", "out.png", "a..png"} -> "file"
      [] path = "folder" -> "dir"
      [] OTHER -> "none"

\* the directory the resolved path lies in
FileDir(path) == IF path = "out.png" THEN "other" ELSE "ok"

\* ".." in str(path)
HasDotDot(path) == path = "a..png"

\* validate_file_path(file_path), with ALLOWED_FILE_DIRS = dirs
ValidateFilePath(path, dirs) ==
    IF FileKind(path) = "none"
    THEN [valid |-> FALSE, error |-> "file does not exist: " \o path]
    ELSE IF FileKind(path) # "file"
    THEN [valid |-> FALSE, error |-> "path is not a file: " \o path]
    ELSE IF HasDotDot(path)
    THEN [valid |-> FALSE, error |-> "path holds illegal characters: " \o path]
    ELSE IF dirs # {} /\ FileDir(path) \notin dirs
    THEN [valid |-> FALSE, error |-> "file is not in an allowed directory: " \o path]
    ELSE [valid |-> TRUE, error |-> ""]

\* the error send_message reports after its last attempt
SendFailed == "send failed (retried 3 times): E"

\* send_message(chat_name, message, at)
SendMessage(up, msgFails) ==
    IF ~up THEN [success |-> FALSE, error |-> NotConnected,
                 ops |-> Called("send_message", "", FALSE, NotConnected, <<>>)]
    ELSE IF msgFails < MaxRetries
    THEN [success |-> TRUE, error |-> "",
          ops |-> Called("send_message", "", TRUE, "",
                         [i \in 1..(msgFails + 1) |->
                            Op("SendMsg", "", i = msgFails + 1,
                               IF i = msgFails + 1 THEN "" ELSE "E")])]
    ELSE [success |-> FALSE, error |-> SendFailed,
          ops |-> Called("send_message", "", FALSE, SendFailed,
                         [i \in 1..MaxRetries |-> Op("SendMsg", "", FALSE, "E")])]

\* mutant of SendFile: the path is not validated
SendFileUnvalidated(up, path, fileFails) ==
    IF ~up THEN [success |-> FALSE, error |-> NotConnected,
                 ops |-> Called("send_file", path, FALSE, NotConnected, <<>>)]
    ELSE IF path \in fileFails
    THEN [success |-> FALSE, error |-> "E",
          ops |-> Called("send_file", path, FALSE, "E",
                         <<Op("SendFiles", path, FALSE, "E")>>)]
    ELSE [success |-> TRUE, error |-> "",
          ops |-> Called("send_file", path, TRUE, "",
                         <<Op("SendFiles", path, TRUE, "")>>)]

\* send_file(chat_name, file_path)
SendFile(up, path, fileFails) ==
    IF ~up THEN [success |-> FALSE, error |-> NotConnected,
                 ops |-> Called("send_file", path, FALSE, NotConnected, <<>>)]
    ELSE IF ~ValidateFilePath(path, allowedDirs).valid
    THEN [success |-> FALSE, error |-> ValidateFilePath(path, allowedDirs).error,
          ops |-> Called("send_file", path, FALSE,
                         ValidateFilePath(path, allowedDirs).error, <<>>)]
    ELSE IF path \in fileFails
    THEN [success |-> FALSE, error |-> "E",
          ops |-> Called("send_file", path, FALSE, "E",
                         <<Op("SendFiles", path, FALSE, "E")>>)]
    ELSE [success |-> TRUE, error |-> "",
          ops |-> Called("send_file", path, TRUE, "",
                         <<Op("SendFiles", path, TRUE, "")>>)]

\* remove_listener(chat_name)
RemoveListener(chats, up, chat) ==
    IF ~up THEN [chats |-> chats, success |-> FALSE, error |-> NotConnected,
                 ops |-> Called("remove_listener", chat, FALSE, NotConnected, <<>>)]
    ELSE IF chat \notin chats
    THEN [chats |-> chats, success |-> TRUE, error |-> "",
          ops |-> Called("remove_listener", chat, TRUE, "", <<>>)]
    ELSE [chats |-> chats \ {chat}, success |-> TRUE, error |-> "",
          ops |-> Called("remove_listener", chat, TRUE, "",
                         <<Op("RemoveListenChat", chat, TRUE, "")>>)]

----------------------------------------------------------------------------
(* The command handlers.  A handler answers                                *)
(*   [raised, message, result, ops, chats]:                                *)
(* the exception it raised (message) or its result, the backend operations *)
(* it invoked and the listener set it leaves.                              *)

OkResult(ok, error) == [tag |-> "ok", ok |-> ok, error |-> error, port |-> 0]
Tagged(tag) == [tag |-> tag, ok |-> TRUE, error |-> "", port |-> 0]

Returned(result, ops, chats) ==
    [raised |-> FALSE, message |-> "", result |-> result, ops |-> ops, chats |-> chats]
Raised(message, chats) ==
    [raised |-> TRUE, message |-> message, result |-> NoResult, ops |-> <<>>,
     chats |-> chats]

\* params.get(...) on a value that is no dict
NoGet == "'list' object has no attribute 'get'"

\* mutant of SendFilesLoop: a failed file does not end the loop
RECURSIVE SendFilesLoopNoAbort(_, _, _, _)
SendFilesLoopNoAbort(up, files, fileFails, ops) ==
    IF files = <<>>
    THEN [ok |-> \A i \in 1..Len(ops) : ops[i].ok, error |-> "E", ops |-> ops]
    ELSE SendFilesLoopNoAbort(up, Tail(files), fileFails,
                              ops \o SendFile(up, Head(files), fileFails).ops)

\* the loop over files of _handle_send: [ok, error, ops]
RECURSIVE SendFilesLoop(_, _, _, _)
SendFilesLoop(up, files, fileFails, ops) ==
    IF files = <<>> THEN [ok |-> TRUE, error |-> "", ops |-> ops]
    ELSE LET r == SendFile(up, Head(files), fileFails) IN
         IF ~r.success THEN [ok |-> FALSE, error |-> r.error, ops |-> ops \o r.ops]
         ELSE SendFilesLoop(up, Tail(files), fileFails, ops \o r.ops)

\* mutant of HandleSend: the result of send_message is not looked at
HandleSendIgnoresTextResult(params, o) ==
    IF ~params.dict THEN Raised(NoGet, listenChats)
    ELSE IF params.to = ""
    THEN Returned(OkResult(FALSE, "Missing 'to' parameter"), <<>>, listenChats)
    ELSE LET fr == SendFilesLoop(wx, params.files, o.fileFails, <<>>) IN
         IF ~fr.ok THEN Returned(OkResult(FALSE, fr.error), fr.ops, listenChats)
         ELSE IF params.text = "" THEN Returned(OkResult(TRUE, ""), fr.ops, listenChats)
         ELSE Returned(OkResult(TRUE, ""), fr.ops \o SendMessage(wx, o.msgFails).ops,
                       listenChats)

\* _handle_send
HandleSend(params, o) ==
    IF ~params.dict THEN Raised(NoGet, listenChats)
    ELSE IF params.to = ""
    THEN Returned(OkResult(FALSE, "Missing 'to' parameter"), <<>>, listenChats)
    ELSE LET fr == SendFilesLoop(wx, params.files, o.fileFails, <<>>) IN
         IF ~fr.ok THEN Returned(OkResult(FALSE, fr.error), fr.ops, listenChats)
         ELSE IF params.text = "" THEN Returned(OkResult(TRUE, ""), fr.ops, listenChats)
         ELSE LET mr == SendMessage(wx, o.msgFails) IN
              IF ~mr.success
              THEN Returned(OkResult(FALSE, mr.error), fr.ops \o mr.ops, listenChats)
              ELSE Returned(OkResult(TRUE, ""), fr.ops \o mr.ops, listenChats)

\* mutant of HandleSendFile: the parameters are not checked
HandleSendFileUnchecked(params, o) ==
    IF ~params.dict THEN Raised(NoGet, listenChats)
    ELSE LET r == SendFile(wx, params.filePath, o.fileFails) IN
         Returned(OkResult(r.success, r.error), r.ops, listenChats)

\* _handle_send_file
HandleSendFile(params, o) ==
    IF ~params.dict THEN Raised(NoGet, listenChats)
    ELSE IF params.to = "" \/ params.filePath = ""
    THEN Returned(OkResult(FALSE, "Missing 'to' or 'filePath' parameter"), <<>>,
                  listenChats)
    ELSE LET r == SendFile(wx, params.filePath, o.fileFails) IN
         Returned(OkResult(r.success, r.error), r.ops, listenChats)

\* _handle_get_status
HandleGetStatus(params, o) ==
    Returned(Tagged("status"), <<Op("get_status", "", TRUE, "")>>, listenChats)

\* _handle_get_contacts, with get_chat_list
HandleGetContacts(params, o) ==
    Returned(Tagged("contacts"),
             Called("get_chat_list", "", TRUE, "",
                    IF wx THEN <<Op("GetSession", "", TRUE, "")>> ELSE <<>>),
             listenChats)

\* _handle_add_listen
HandleAddListen(params, o) ==
    IF ~params.dict THEN Raised(NoGet, listenChats)
    ELSE IF params.chat = ""
    THEN Returned(OkResult(FALSE, "Missing 'chat' parameter"), <<>>, listenChats)
    ELSE LET r == AddListener(listenChats, wx, params.chat, o.accepted) IN
         Returned(OkResult(r.success, r.error), r.ops, r.chats)

\* _handle_remove_listen
HandleRemoveListen(params, o) ==
    IF ~params.dict THEN Raised(NoGet, listenChats)
    ELSE IF params.chat = ""
    THEN Returned(OkResult(FALSE, "Missing 'chat' parameter"), <<>>, listenChats)
    ELSE LET r == RemoveListener(listenChats, wx, params.chat) IN
         Returned(OkResult(r.success, r.error), r.ops, r.chats)

\* _handle_get_media_info
HandleGetMediaInfo(params, o) ==
    Returned([Tagged("mediaInfo") EXCEPT !.port = GetMediaPort], <<>>, listenChats)

KnownMethods == {"send", "sendFile", "getStatus", "getContacts", "addListen",
                 "removeListen", "getMediaInfo", "ping"}

\* str(method) in the message of the MethodNotFound error
MethodText(method) == IF method = NoMethod THEN "None" ELSE method

NoError == [code |-> 0, message |-> ""]

\* the if/elif chain of _handle_message inside its try: [error, result, ops, chats]
Dispatch(method, params, o) ==
    LET h == CASE method = "send" -> HandleSend(params, o)
               [] method = "sendFile" -> HandleSendFile(params, o)
               [] method = "getStatus" -> HandleGetStatus(params, o)
               [] method = "getContacts" -> HandleGetContacts(params, o)
               [] method = "addListen" -> HandleAddListen(params, o)
               [] method = "removeListen" -> HandleRemoveListen(params, o)
               [] method = "getMediaInfo" -> HandleGetMediaInfo(params, o)
               [] method = "ping" -> Returned(Tagged("pong"), <<>>, listenChats)
               [] OTHER -> Returned(NoResult, <<>>, listenChats)
    IN  IF method \notin KnownMethods
        THEN [error |-> [code |-> -32601,
                         message |-> "Method not found: " \o MethodText(method)],
              caught |-> "", result |-> NoResult, ops |-> <<>>, chats |-> listenChats]
        ELSE IF h.raised
        THEN [error |-> [code |-> -32000, message |-> h.message], caught |-> h.message,
              result |-> NoResult, ops |-> h.ops, chats |-> h.chats]
        ELSE [error |-> NoError, caught |-> "", result |-> h.result, ops |-> h.ops,
              chats |-> h.chats]

\* mutant of SendResponse: the connection is not checked
SendResponseUnchecked(id, result, error) ==
    IF error # NoError
    THEN <<OutFrame("response", id, NoMethod, NoResult, error.code, error.message)>>
    ELSE <<OutFrame("response", id, NoMethod, result, 0, "")>>

\* _send_response: the frames it writes
SendResponse(id, result, error) ==
    IF ~IsWsConnected THEN <<>>
    ELSE IF error # NoError
    THEN <<OutFrame("response", id, NoMethod, NoResult, error.code, error.message)>>
    ELSE <<OutFrame("response", id, NoMethod, result, 0, "")>>

\* the response branch of _handle_message: the table after it, and the
\* exception set_result raises on a future that is already done
ResolvePending(table, id) ==
    IF id.t = "str" /\ id.s \in DOMAIN table
    THEN IF table[id.s] = "pending"
         THEN [table |-> [table EXCEPT ![id.s] = "done"], raised |-> ""]
         ELSE [table |-> table, raised |-> "InvalidStateError"]
    ELSE [table |-> table, raised |-> ""]

\* "if request_id:" before _send_response
WantsResponse(id) == Truthy(id)

Oracles(f) ==
    [msgFails : IF f.method = "send" /\ f.params.text # "" THEN 0..MaxRetries ELSE {0},
     fileFails : IF f.method \in {"send", "sendFile"} THEN SUBSET ValidPaths ELSE {{}},
     accepted : IF f.method = "addListen" THEN BOOLEAN ELSE {TRUE}]

\* json.loads and _handle_message on frame f
HandleMessage(f) ==
    /\ IF f.json = "invalid"
       THEN /\ last' = [Step("HandleFrame") EXCEPT !.frame = f,
                                                   !.raised = "JSONDecodeError"]
            /\ UNCHANGED <<pending, listenChats>>
       ELSE IF f.json # "object"
       THEN /\ last' = [Step("HandleFrame") EXCEPT !.frame = f,
                                                   !.raised = "AttributeError"]
            /\ UNCHANGED <<pending, listenChats>>
       ELSE IF f.id # Absent /\ f.hasResult
       THEN LET r == ResolvePending(pending, f.id) IN
            /\ pending' = r.table
            /\ last' = [Step("HandleFrame") EXCEPT !.frame = f, !.raised = r.raised]
            /\ UNCHANGED listenChats
       ELSE \E o \in Oracles(f) :
            LET d == Dispatch(f.method, f.params, o) IN
            /\ listenChats' = d.chats
            /\ last' = [Step("HandleFrame") EXCEPT
                          !.frame = f,
                          !.backend = d.ops,
                          !.result = d.result,
                          !.chatsBefore = listenChats,
                          !.caught = d.caught,
                          !.sent = IF WantsResponse(f.id)
                                   THEN SendResponse(f.id, d.result, d.error)
                                   ELSE <<>>]
            /\ UNCHANGED pending

\* one iteration of _message_loop on a frame f that arrives and is read at once
HandleFrame(f) ==
    /\ startPc \in {"first_loop", "loop"}
    /\ ~Busy
    /\ ws \in {"OPEN", "CLOSING"}
    /\ HandleMessage(f)
    /\ UNCHANGED <<running, ws, closeKind, startPc, attempt, listenArg, stopPc, wx,
                   mediaUp, calls,
                   mediaVars, eventVars, statusVars, stopAgain, laneVars, allowedDirs>>

\* the peer sends a command; its id numbers the frames in their order on the
\* wire
Receive(method, params) ==
    /\ ws = "OPEN"
    /\ arrivals < MaxFrames
    /\ arrivals' = arrivals + 1
    /\ wire' = Append(wire, Request(JNum(arrivals + 1), method, params))
    /\ last' = Step("Receive")
    /\ UNCHANGED <<running, ws, closeKind, startPc, attempt, listenArg, stopPc, wx,
                   listenChats, mediaUp, pending, calls, mediaVars, eventVars,
                   statusVars, stopAgain, handling, handled, allowedDirs>>

\* mutant of HandleBegin: _handle_message is not awaited, so the next frame
\* is taken up while a handler is at work, and the frame taken up is the one
\* whose task runs first
HandleBeginUnawaited ==
    /\ startPc \in {"first_loop", "loop"}
    /\ \E i \in 1..Len(wire) :
        /\ handling' = wire[i]
        /\ wire' = SubSeq(wire, 1, i - 1) \o SubSeq(wire, i + 1, Len(wire))
        /\ handled' = Append(handled, wire[i].id.n)
    /\ last' = Step("HandleBegin")
    /\ UNCHANGED <<running, ws, closeKind, startPc, attempt, listenArg, stopPc, wx,
                   listenChats, mediaUp, pending, calls, mediaVars, eventVars,
                   statusVars, stopAgain, arrivals, allowedDirs>>

\* "async for message in self.ws" yields the oldest frame not read yet, and
\* _handle_message on it runs up to the synchronous call of its handler
HandleBegin ==
    /\ startPc \in {"first_loop", "loop"}
    /\ ~Busy
    /\ wire # <<>>
    /\ handling' = Head(wire)
    /\ wire' = Tail(wire)
    /\ handled' = Append(handled, Head(wire).id.n)
    /\ last' = Step("HandleBegin")
    /\ UNCHANGED <<running, ws, closeKind, startPc, attempt, listenArg, stopPc, wx,
                   listenChats, mediaUp, pending, calls, mediaVars, eventVars,
                   statusVars, stopAgain, arrivals, allowedDirs>>

\* the handler's call returns and _handle_message runs to its end: the
\* response is written
HandleEnd ==
    /\ Busy
    /\ HandleMessage(handling)
    /\ handling' = NoFrame
    /\ UNCHANGED <<running, ws, closeKind, startPc, attempt, listenArg, stopPc, wx,
                   mediaUp, calls, mediaVars, eventVars, statusVars, stopAgain,
                   wire, arrivals, handled, allowedDirs>>

----------------------------------------------------------------------------
(* Backend message events: WeChatHandler._on_message on the listener       *)
(* thread, WeChatBridge._on_wechat_message and _push_message.              *)
(* A raw event (a wxauto Message) is                                       *)
(*   attr        "self", "friend", or "none" when it has no attr           *)
(*   type        its type                                                  *)
(*   content     its content                                               *)
(*   group       whether its chat is a group                               *)
(*   download    what msg.download does: "ok" (a file under the media      *)
(*               directory), "outside" (a file elsewhere) or "fail"        *)
(*   named       whether it has filename and filesize                      *)
(*   transcript  what msg.to_text() answers (empty: no text)               *)

Event(attr, type, content, group, download, named, transcript) ==
    [attr |-> attr, type |-> type, content |-> content, group |-> group,
     download |-> download, named |-> named, transcript |-> transcript]

\* self._nickname: the display name of the logged-in account
Nickname == <<"n">>
AtToken == <<"@">> \o Nickname

DownloadableTypes == {"image", "video", "file"}
VoiceTypes == {"voice"}

\* mutant of MediaAttempts: the download is attempted for every kind
MediaAttemptsEveryKind(ev) ==
    <<Op("_download_media", ev.type, ev.download # "fail", "")>>

\* the if/elif of _on_message on msg_type: the helper it calls, if any, with
\* whether the helper got something
MediaAttempts(ev) ==
    IF ev.type \in DownloadableTypes
    THEN <<Op("_download_media", ev.type, ev.download # "fail", "")>>
    ELSE IF ev.type \in VoiceTypes
    THEN <<Op("_convert_voice_to_text", ev.type, ev.transcript # <<>>, "")>>
    ELSE <<>>

\* _on_message up to the callback: the WeChatMessage it builds from the
\* seq-th event
BuildMessage(ev, seq) ==
    LET atMe == Nickname # <<>> /\ Contains(ev.content, AtToken)
        downloaded == ev.type \in DownloadableTypes /\ ev.download # "fail"
    IN  WeChatMessage(seq,
                      IF atMe THEN Strip(Remove(ev.content, AtToken)) ELSE ev.content,
                      ev.type,
                      ev.attr = "self",
                      atMe,
                      ev.group,
                      downloaded,
                      IF downloaded /\ ev.download = "ok" THEN GetMediaPort ELSE 0,
                      ev.type = "file" /\ ev.named,
                      ev.type = "file" /\ ev.named,
                      IF ev.type \in VoiceTypes THEN ev.transcript ELSE <<>>)

\* " ".join(parts)
RECURSIVE JoinParts(_)
JoinParts(parts) ==
    IF Len(parts) <= 1 THEN parts
    ELSE <<Head(parts), " ">> \o JoinParts(Tail(parts))

\* mutant of BuildMessageText: the parts of a file message in another order
BuildMessageTextPathFirst(msg) ==
    CASE msg.msgType = "text" -> msg.content
      [] msg.msgType = "voice" ->
            IF msg.voiceText # <<>> THEN <<"[voice] ">> \o msg.voiceText
            ELSE <<"[voice](no text)">>
      [] msg.msgType = "image" ->
            JoinParts(<<"[image]">>
                      \o (IF msg.mediaUrl # 0 THEN <<"image-url">> ELSE <<>>)
                      \o (IF msg.mediaPath THEN <<"local-path">> ELSE <<>>))
      [] msg.msgType = "video" ->
            JoinParts(<<"[video]">>
                      \o (IF msg.mediaUrl # 0 THEN <<"video-url">> ELSE <<>>)
                      \o (IF msg.mediaPath THEN <<"local-path">> ELSE <<>>))
      [] msg.msgType = "file" ->
            JoinParts(<<"[file]">>
                      \o (IF msg.fileName THEN <<"file-name">> ELSE <<>>)
                      \o (IF msg.fileSize THEN <<"file-size">> ELSE <<>>)
                      \o (IF msg.mediaPath THEN <<"local-path">> ELSE <<>>)
                      \o (IF msg.mediaUrl # 0 THEN <<"download-url">> ELSE <<>>))
      [] OTHER -> msg.content

\* _build_message_text.  The text is a sequence of characters and of the
\* fixed pieces the bridge writes
BuildMessageText(msg) ==
    CASE msg.msgType = "text" -> msg.content
      [] msg.msgType = "voice" ->
            IF msg.voiceText # <<>> THEN <<"[voice] ">> \o msg.voiceText
            ELSE <<"[voice](no text)">>
      [] msg.msgType = "image" ->
            JoinParts(<<"[image]">>
                      \o (IF msg.mediaUrl # 0 THEN <<"image-url">> ELSE <<>>)
                      \o (IF msg.mediaPath THEN <<"local-path">> ELSE <<>>))
      [] msg.msgType = "video" ->
            JoinParts(<<"[video]">>
                      \o (IF msg.mediaUrl # 0 THEN <<"video-url">> ELSE <<>>)
                      \o (IF msg.mediaPath THEN <<"local-path">> ELSE <<>>))
      [] msg.msgType = "file" ->
            JoinParts(<<"[file]">>
                      \o (IF msg.fileName THEN <<"file-name">> ELSE <<>>)
                      \o (IF msg.fileSize THEN <<"file-size">> ELSE <<>>)
                      \o (IF msg.mediaUrl # 0 THEN <<"download-url">> ELSE <<>>)
                      \o (IF msg.mediaPath THEN <<"local-path">> ELSE <<>>))
      [] OTHER -> msg.content

\* the frame _push_message writes
MessageNotification(msg) ==
    Notification("wechat.message",
                 [seq |-> msg.seq,
                  text |-> BuildMessageText(msg),
                  type |-> msg.msgType,
                  chatType |-> IF msg.isGroup THEN "group" ELSE "friend",
                  isSelf |-> msg.isSelf,
                  isAtMe |-> msg.isAtMe,
                  hasMedia |-> msg.mediaUrl # 0 \/ msg.mediaPath \/ msg.voiceText # <<>>,
                  mediaPort |-> msg.mediaUrl,
                  voiceText |-> msg.voiceText])

\* self._loop and self._loop.is_running(): the loop runs start() or stop()
LoopRunning ==
    startPc \notin {"idle", "returned"} \/ stopPc = "closing" \/ stopAgain = "closing"

Logged(ev, fate) == [ev |-> ev, fate |-> fate]

\* mutant of Forwarded: every message is handed to the callback
ForwardedAlways(msg) == TRUE

\* "self._message_callback and not wechat_msg.is_self"
Forwarded(msg) == ~msg.isSelf

\* mutant of OnMessage: the callback writes the notification itself, on the
\* thread of the backend
OnMessageWritesItself(ev) ==
    LET msg == BuildMessage(ev, Len(eventLog) + 1) IN
    /\ wx
    /\ listenChats # {}
    /\ Len(eventLog) < MaxEvents
    /\ IF ~Forwarded(msg)
       THEN /\ eventLog' = Append(eventLog, Logged(ev, "filtered"))
            /\ last' = [Step("OnMessage") EXCEPT !.msg = msg]
       ELSE /\ eventLog' = Append(eventLog, Logged(ev, IF IsWsConnected THEN "sent"
                                                       ELSE "dropped"))
            /\ last' = [Step("OnMessage") EXCEPT
                          !.msg = msg,
                          !.sent = IF IsWsConnected THEN <<MessageNotification(msg)>>
                                   ELSE <<>>]
    /\ UNCHANGED loopTasks
    /\ UNCHANGED <<running, ws, closeKind, startPc, attempt, listenArg, stopPc, wx,
                   listenChats, mediaUp, pending, calls, mediaVars, statusVars,
                   stopAgain, laneVars, allowedDirs>>

\* the backend delivers an event of a listened chat: _on_message, and
\* through the callback _on_wechat_message, which hands _push_message to the
\* event loop
OnMessage(ev) ==
    LET msg == BuildMessage(ev, Len(eventLog) + 1) IN
    /\ wx
    /\ listenChats # {}
    /\ Len(eventLog) < MaxEvents
    /\ IF ~Forwarded(msg)
       THEN /\ eventLog' = Append(eventLog, Logged(ev, "filtered"))
            /\ UNCHANGED loopTasks
       ELSE IF ~LoopRunning
       THEN /\ eventLog' = Append(eventLog, Logged(ev, "no loop"))
            /\ UNCHANGED loopTasks
       ELSE /\ eventLog' = Append(eventLog, Logged(ev, "scheduled"))
            /\ loopTasks' = Append(loopTasks, msg)
    /\ last' = [Step("OnMessage") EXCEPT !.msg = msg, !.backend = MediaAttempts(ev)]
    /\ UNCHANGED <<running, ws, closeKind, startPc, attempt, listenArg, stopPc, wx,
                   listenChats, mediaUp, pending, calls, mediaVars, statusVars,
                   stopAgain, laneVars, allowedDirs>>

\* _send_notification: the frames it writes
SendNotification(frame) == IF ~IsWsConnected THEN <<>> ELSE <<frame>>

\* mutant of PushMessage: the push handed over last runs first
PushMessageNewestFirst ==
    /\ loopTasks # <<>>
    /\ ~Busy
    /\ LoopRunning
    /\ LET msg == loopTasks[Len(loopTasks)] IN
       /\ loopTasks' = SubSeq(loopTasks, 1, Len(loopTasks) - 1)
       /\ IF ~IsWsConnected
          THEN /\ eventLog' = [eventLog EXCEPT ![msg.seq].fate = "dropped"]
               /\ last' = [Step("PushMessage") EXCEPT !.msg = msg]
          ELSE /\ eventLog' = [eventLog EXCEPT ![msg.seq].fate = "sent"]
               /\ last' = [Step("PushMessage") EXCEPT
                             !.msg = msg,
                             !.sent = SendNotification(MessageNotification(msg))]
    /\ UNCHANGED <<running, ws, closeKind, startPc, attempt, listenArg, stopPc, wx,
                   listenChats, mediaUp, pending, calls, mediaVars, statusVars,
                   stopAgain, laneVars, allowedDirs>>

\* the event loop runs the _push_message it was handed first
PushMessage ==
    /\ loopTasks # <<>>
    /\ ~Busy
    /\ LoopRunning
    /\ LET msg == Head(loopTasks) IN
       /\ loopTasks' = Tail(loopTasks)
       /\ IF ~IsWsConnected
          THEN /\ eventLog' = [eventLog EXCEPT ![msg.seq].fate = "dropped"]
               /\ last' = [Step("PushMessage") EXCEPT !.msg = msg]
          ELSE /\ eventLog' = [eventLog EXCEPT ![msg.seq].fate = "sent"]
               /\ last' = [Step("PushMessage") EXCEPT
                             !.msg = msg,
                             !.sent = SendNotification(MessageNotification(msg))]
    /\ UNCHANGED <<running, ws, closeKind, startPc, attempt, listenArg, stopPc, wx,
                   listenChats, mediaUp, pending, calls, mediaVars, statusVars,
                   stopAgain, laneVars, allowedDirs>>

\* the frame _push_status writes
StatusNotification(status) == Notification("wechat.status", [status |-> status])

\* the event loop runs the _push_status it was handed first
PushStatus ==
    /\ statusTasks # <<>>
    /\ ~Busy
    /\ LoopRunning
    /\ statusTasks' = Tail(statusTasks)
    /\ last' = [Step("PushStatus") EXCEPT
                  !.sent = SendNotification(StatusNotification(Head(statusTasks)))]
    /\ UNCHANGED <<running, ws, closeKind, startPc, attempt, listenArg, stopPc, wx,
                   listenChats, mediaUp, pending, calls, mediaVars, eventVars,
                   wxStatus, stopAgain, laneVars, allowedDirs>>

----------------------------------------------------------------------------
(* The frames the peer sends *)

GoodId == JStr("1")
RequestIds == {GoodId, JStr(""), JNum(0), Absent}

ResponseIds == {JStr(Uuid(c)) : c \in 1..MaxCalls} \cup {JStr("zz")}

ResponseFrames ==
    {ResultResponse(id) : id \in ResponseIds} \cup {ErrorResponse(id) : id \in ResponseIds}

RequestFrames ==
    {Request(id, m, NoParams) : id \in RequestIds, m \in {"ping", "bogus", "getStatus"}}
    \cup {Request(id, "send", NotDict) : id \in RequestIds}
    \cup {Request(GoodId, m, NoParams) :
            m \in {"send", "sendFile", "addListen", "removeListen", "getContacts",
                   "getMediaInfo", "Ping", NoMethod}}
    \cup {Request(GoodId, "send", Params("A", "hi", <<>>, "", "")),
          Request(GoodId, "send", Params("A", "hi", <<"a.png", "b.png">>, "", "")),
          Request(GoodId, "send", Params("A", "", <<"missing", "a.png">>, "", "")),
          Request(GoodId, "send", Params("A", "hi", <<"a.png", "missing">>, "", "")),
          Request(GoodId, "send", Params("", "hi", <<"a.png">>, "", "")),
          Request(GoodId, "sendFile", Params("A", "", <<>>, "a.png", "")),
          Request(GoodId, "sendFile", Params("A", "", <<>>, "", "")),
          Request(GoodId, "sendFile", Params("", "", <<>>, "a.png", "")),
          Request(GoodId, "removeListen", Params("", "", <<>>, "", "B")),
          Request(GoodId, "addListen", Params("", "", <<>>, "", "A")),
          Request(GoodId, "addListen", Params("", "", <<>>, "", "B")),
          Request(GoodId, "removeListen", Params("", "", <<>>, "", "A")),
          Request(GoodId, "addListen", NotDict)}

MalformedFrames == {InvalidJson, JsonArray}

\* commands that touch neither the backend nor the listener set
PlainFrames == {Request(GoodId, m, NoParams) : m \in {"getMediaInfo", "ping"}}

----------------------------------------------------------------------------
(* The events the backend delivers, the requests the MediaServer gets and  *)
(* the ports it may find occupied                                          *)

\* the sequences over S of length at most n
SeqsUpTo(S, n) == UNION {[1..k -> S] : k \in 0..n}

\* messages of three kinds, from the account itself and from others
PlainEvents ==
    {Event(attr, "text", <<"x">>, FALSE, "fail", FALSE, <<>>) : attr \in {"self", "friend"}}
    \cup {Event(attr, "image", <<"i">>, FALSE, "ok", FALSE, <<>>) :
             attr \in {"self", "none"}}

\* messages of others: text with every content over three characters, and
\* a voice message and a link
MentionEvents ==
    {Event("friend", "text", c, TRUE, "fail", FALSE, <<>>) :
        c \in SeqsUpTo({"@", "n", " "}, MaxContentLen)}
    \cup {Event("friend", "voice", AtToken, TRUE, "fail", FALSE, t) :
             t \in {<<>>, <<"n">>}}
    \cup {Event("friend", "link", AtToken \o <<"n">>, TRUE, "fail", FALSE, <<>>)}

MediaPaths == SeqsUpTo(Segments, MaxPathLen)

\* the ports start() tries and the one after them
ProbePorts == MediaPort..(MediaPort + PortsTried)

----------------------------------------------------------------------------
\* the bridge after construction
Constructed ==
    /\ running = FALSE
    /\ ws = "NONE"
    /\ closeKind = "none"
    /\ startPc = "idle"
    /\ attempt = 0
    /\ listenArg = <<>>
    /\ stopPc = "idle"
    /\ wx = FALSE
    /\ listenChats = {}
    /\ mediaUp = FALSE
    /\ pending = EmptyTable
    /\ calls = [c \in 1..MaxCalls |-> "idle"]
    /\ serverPort = MediaPort
    /\ occupied = {}
    /\ http = NoExchange
    /\ loopTasks = <<>>
    /\ eventLog = <<>>
    /\ listeners = {}
    /\ stopAgain = "idle"
    /\ wxStatus = "disconnected"
    /\ statusTasks = <<>>
    /\ wire = <<>>
    /\ handling = NoFrame
    /\ arrivals = 0
    /\ handled = <<>>
    /\ last = Step("Init")

\* WECHAT_ALLOWED_FILE_DIRS is not set
Init == Constructed /\ allowedDirs = {}

\* WECHAT_ALLOWED_FILE_DIRS is not set, or names the directory "ok"
InitFiles == Constructed /\ allowedDirs \in {{}, {"ok"}}

\* the ports MediaServer.start tries
PortsToTry == MediaPort..(MediaPort + PortsTried - 1)

\* start() and stop() of a bridge that finds one of occupancies when it
\* starts and whose listen_chats argument is one of listenArgs
Session(occupancies, listenArgs) ==
    \/ \E occ \in occupancies, wxOk \in BOOLEAN, chats \in listenArgs :
          Start(occ, wxOk, chats)
    \/ InitConnectDone
    \/ InitSleepDone
    \/ ConnectDone
    \/ SleepDone
    \/ LoopEnd
    \/ StopBegin
    \/ StopClosed
    \/ ConnectionLost

Calls ==
    \/ \E c \in 1..MaxCalls : CallBegin(c)
    \/ \E c \in 1..MaxCalls : CallSent(c)
    \/ \E c \in 1..MaxCalls : CallTimeout(c)
    \/ \E c \in 1..MaxCalls : CallReturn(c)

\* the session alone
NextSession == Session({{}, PortsToTry}, ListenArgs)

\* the session with callers of _send_request and a peer that answers them
\* (started as main() starts it: without listen_chats)
NextRpc ==
    \/ Session({{}}, {<<>>})
    \/ Calls
    \/ \E f \in ResponseFrames : HandleFrame(f)

\* the session with a peer that sends commands and malformed frames
NextDispatch ==
    \/ Session({{}, PortsToTry}, ListenArgs)
    \/ \E f \in RequestFrames \cup MalformedFrames : HandleFrame(f)

\* the session with a backend that delivers message events and a peer that
\* sends plain commands
NextEvents ==
    \/ Session({{}, {MediaPort}}, {<<"A">>})
    \/ \E ev \in PlainEvents : OnMessage(ev)
    \/ PushMessage
    \/ \E f \in PlainFrames : HandleFrame(f)

\* a message of another account
FriendEvents == {Event("friend", "text", <<"x">>, FALSE, "fail", FALSE, <<>>)}

\* the session of main(): started without listen_chats, stopped twice
NextStop ==
    \/ Session({{}, {MediaPort}}, {<<>>})
    \/ StopAgainBegin
    \/ StopAgainClosed

\* the session of main() with the pushes of the status changes
NextStatus ==
    \/ NextStop
    \/ PushStatus

\* a text for the chat "A"
SendText == Request(GoodId, "send", Params("A", "hi", <<>>, "", ""))

\* the session of a bridge that may find every port of the MediaServer
\* occupied, with a peer that sends commands
NextNoMedia ==
    \/ Session({{}, PortsToTry}, {<<"A">>})
    \/ \E f \in PlainFrames \cup {SendText} : HandleFrame(f)

\* the session with everything that writes to the connection: the dispatcher
\* answering commands, the pushes of messages and of status changes
NextOpen ==
    \/ Session({{}}, {<<"A">>})
    \/ \E ev \in FriendEvents : OnMessage(ev)
    \/ PushMessage
    \/ PushStatus
    \/ \E f \in PlainFrames : HandleFrame(f)

\* the commands of the peer whose frames wait on the wire: a ping and a text
\* for the chat "A"
LaneCommands == {<<"ping", NoParams>>, <<"send", Params("A", "hi", <<>>, "", "")>>}

\* the session with the lane of the peer's commands, read and handled one
\* after the other, and the lane of the backend's message events
NextLanes ==
    \/ Session({{}}, {<<"A">>})
    \/ \E c \in LaneCommands : Receive(c[1], c[2])
    \/ HandleBegin
    \/ HandleEnd
    \/ \E ev \in FriendEvents : OnMessage(ev)
    \/ PushMessage

\* the session with everything that writes to the connection, and a command
\* whose handler calls the backend
NextWrites ==
    \/ Session({{}}, {<<"A">>})
    \/ Receive("getContacts", NoParams)
    \/ HandleBegin
    \/ HandleEnd
    \/ \E ev \in FriendEvents : OnMessage(ev)
    \/ PushMessage
    \/ PushStatus

\* messages of others of every kind, whose download ends in each way, with
\* and without file name and size, with and without a transcript
KindEvents ==
    {Event("friend", type, <<"x">>, FALSE, download, named, transcript) :
        type \in {"text", "voice", "image", "video", "file", "link"},
        download \in {"ok", "outside", "fail"},
        named \in BOOLEAN,
        transcript \in {<<>>, <<"t">>}}

\* the session with a backend that delivers one message of any kind
NextKinds ==
    \/ Session({{}}, {<<"A">>})
    \/ \E ev \in KindEvents : eventLog = <<>> /\ OnMessage(ev)
    \/ PushMessage

\* the paths the peer asks to send
FilePaths == {"a.png", "out.png", "a..png", "folder", "missing"}

\* sendFile for each path, and a send with two files
FileFrames ==
    {Request(GoodId, "sendFile", Params("A", "", <<>>, p, "")) : p \in FilePaths}
    \cup {Request(GoodId, "send", Params("A", "", <<"a.png", "out.png">>, "", ""))}

\* the session with a peer that asks for files to be sent
NextFiles ==
    \/ Session({{}}, {<<>>})
    \/ \E f \in FileFrames : HandleFrame(f)

\* the session with a backend that delivers one message, which may mention
\* the account
NextMention ==
    \/ Session({{}}, {<<"A">>})
    \/ \E ev \in MentionEvents : eventLog = <<>> /\ OnMessage(ev)
    \/ PushMessage

\* the MediaServer alone: started by start(), stopped by stop()
NextMediaStart ==
    \/ \E occ \in SUBSET ProbePorts, wxOk \in BOOLEAN : Start(occ, wxOk, <<>>)
    \/ StopBegin

\* the MediaServer answering one request (it keeps nothing between requests)
NextMediaGet ==
    \/ \E wxOk \in BOOLEAN : Start({}, wxOk, <<>>)
    \/ StopBegin
    \/ \E path \in MediaPaths : http = NoExchange /\ HandleMedia(path)

\* the routes of a request
Routes == {"health", "none"}

\* the MediaServer answering one request, for any route
NextMediaHttp ==
    \/ \E wxOk \in BOOLEAN : Start({}, wxOk, <<>>)
    \/ StopBegin
    \/ \E path \in MediaPaths : http = NoExchange /\ HandleMedia(path)
    \/ \E route \in Routes : http = NoExchange /\ HandleOther(route)

\* a MediaServer on its own: start() and stop() called in any order
NextMediaCalls ==
    \/ \E occ \in SUBSET ProbePorts : ServerStart(occ)
    \/ ServerStop

Next ==
    \/ Session({{}, {MediaPort}, PortsToTry}, ListenArgs)
    \/ Calls
    \/ \E f \in ResponseFrames \cup RequestFrames \cup MalformedFrames : HandleFrame(f)
    \/ \E ev \in PlainEvents : OnMessage(ev)
    \/ PushMessage
    \/ PushStatus
    \/ \E c \in LaneCommands : Receive(c[1], c[2])
    \/ HandleBegin
    \/ HandleEnd
    \/ StopAgainBegin
    \/ StopAgainClosed
    \/ \E path \in MediaPaths : HandleMedia(path)
    \/ \E route \in Routes : HandleOther(route)
    \/ \E occ \in {{}, {MediaPort}} : ServerStart(occ)
    \/ ServerStop

Spec == Init /\ [][Next]_vars
SpecSession == Init /\ [][NextSession]_vars
\* the event loop resumes start() when its sleep ends, when its connect()
\* returns and when the read loop ends, and stop() when its close() returns;
\* a close handshake ends (by the peer's answer or by close_timeout); a
\* Gateway that accepts connections accepts one of the attempts made again
\* and again
SpecSessionFair ==
    /\ SpecSession
    /\ WF_vars(InitSleepDone) /\ WF_vars(SleepDone) /\ WF_vars(LoopEnd)
    /\ WF_vars(StopClosed) /\ WF_vars(ws = "CLOSING" /\ ConnectionLost)
    /\ WF_vars(InitConnectDone) /\ WF_vars(ConnectDone)
    /\ SF_vars(InitConnectDone /\ ws' = "OPEN") /\ SF_vars(ConnectDone /\ ws' = "OPEN")
SpecRpc == Init /\ [][NextRpc]_vars
\* the event loop resumes a call when its timeout elapses or its future is done
SpecRpcFair ==
    SpecRpc /\ \A c \in 1..MaxCalls : WF_vars(CallTimeout(c)) /\ WF_vars(CallReturn(c))
SpecDispatch == Init /\ [][NextDispatch]_vars
SpecEvents == Init /\ [][NextEvents]_vars
SpecStop == Init /\ [][NextStop]_vars
SpecStatus == Init /\ [][NextStatus]_vars
SpecNoMedia == Init /\ [][NextNoMedia]_vars
SpecOpen == Init /\ [][NextOpen]_vars
SpecLanes == Init /\ [][NextLanes]_vars
SpecFiles == InitFiles /\ [][NextFiles]_vars
SpecKinds == Init /\ [][NextKinds]_vars
SpecWrites == Init /\ [][NextWrites]_vars
SpecMention == Init /\ [][NextMention]_vars
SpecMediaStart == Init /\ [][NextMediaStart]_vars
SpecMediaGet == Init /\ [][NextMediaGet]_vars
SpecMediaHttp == Init /\ [][NextMediaHttp]_vars
SpecMediaCalls == Init /\ [][NextMediaCalls]_vars

----------------------------------------------------------------------------
(* Properties *)

Handled == last.act = "HandleFrame"

\* the frame is a command: an object that is no Response and names a method
IsCommand(f) == f.json = "object" /\ ~f.hasResult /\ ~f.hasError /\ f.method # NoMethod

\* the frame is a Response: an object with an id and a result or an error
IsResponse(f) == f.json = "object" /\ f.id # Absent /\ (f.hasResult \/ f.hasError)

StillReading == startPc \in {"first_loop", "loop"}

Suspended == {Uuid(c) : c \in {d \in 1..MaxCalls : calls[d] \in {"sending", "waiting"}}}

\* C1: once stop() has been called, no connect attempt is started and the
\* session does not enter Open any more
C1_StopSuppressesReconnect ==
    stopPc # "idle" =>
        /\ ~last.began
        /\ ~(last.act \in {"InitConnectDone", "ConnectDone"} /\ ws = "OPEN")

\* C2: every connect attempt but the first one of start() is started right
\* after a backoff sleep, never right after the loss of the connection or
\* after another attempt
C2_BackoffBeforeEveryReconnect ==
    (last.began /\ last.act # "Start") => last.slept > 0

\* C3: when the session is not Open any more, no request is left pending:
\* each was failed and removed from the table when the session left Open
C3_PendingFailedOnSessionLoss ==
    ws \in {"CLOSING", "CLOSED"} => DOMAIN pending = {} /\ Suspended = {}

\* C4: a Response whose id matches a pending request completes that request,
\* whether it carries a result or an error, and no Response makes the
\* dispatcher write a frame
C4_ResponseCompletesCall ==
    (Handled /\ IsResponse(last.frame)) =>
        /\ last.sent = <<>>
        /\ last.frame.id.s \in DOMAIN pending => pending[last.frame.id.s] = "done"

\* C5: the pending-request table holds exactly the ids of the calls that are
\* suspended (registered, not yet ended); the id of a call that has just ended,
\* by whatever path, is not in the table
C5_TableIsSuspendedCalls ==
    /\ DOMAIN pending = Suspended
    /\ last.outcome # "" =>
          /\ calls[last.call] = "done"
          /\ Uuid(last.call) \notin DOMAIN pending

\* C5 witness: a call has ended by timeout while another one is still
\* suspended and registered
C5_Witness ==
    /\ last.outcome = "TimeoutError"
    /\ \E c \in 1..MaxCalls : calls[c] = "waiting" /\ Uuid(c) \in DOMAIN pending

UnmatchedResponse(f, table) ==
    IsResponse(f) /\ ~(f.id.t = "str" /\ f.id.s \in DOMAIN table)

\* C6: a call that waits for its response does not wait forever; when its
\* timeout elapses it ends with a timeout error and leaves the table; a
\* Response whose id matches no pending request (a late one included) leaves
\* the table and every call as they were
C6_TimeoutAndLateResponse ==
    /\ \A c \in 1..MaxCalls : (calls[c] = "waiting") ~> (calls[c] = "done")
    /\ [](last.act = "CallTimeout" =>
            /\ last.outcome = "TimeoutError"
            /\ calls[last.call] = "done"
            /\ Uuid(last.call) \notin DOMAIN pending)
    /\ [][(last'.act = "HandleFrame" /\ UnmatchedResponse(last'.frame, pending))
            => (pending' = pending /\ calls' = calls)]_vars

\* C6 witness: the response to call 1 arrives after call 1 timed out, while
\* another call is pending
C6_Witness ==
    /\ Handled
    /\ last.frame = ResultResponse(JStr(Uuid(1)))
    /\ calls[1] = "done"
    /\ \E c \in 1..MaxCalls : calls[c] = "waiting" /\ pending[Uuid(c)] = "pending"

\* C7: a command with an id and an unknown method is answered by exactly one
\* Response with that id and the MethodNotFound error, and no backend
\* operation is invoked
C7_UnknownMethodAnswered ==
    (Handled /\ ws = "OPEN" /\ IsCommand(last.frame) /\ last.frame.id # Absent
        /\ last.frame.method \notin KnownMethods) =>
        /\ last.sent = <<OutFrame("response", last.frame.id, NoMethod, NoResult, -32601,
                                  "Method not found: " \o last.frame.method)>>
        /\ last.backend = <<>>

\* C8: when a handler raises on a command with an id, one Response with that
\* id, code -32000 and the exception's message is sent, the read loop sees no
\* exception and goes on reading
C8_HandlerExceptionAnswered ==
    (Handled /\ ws = "OPEN" /\ last.caught # "" /\ last.frame.id # Absent) =>
        /\ last.sent = <<OutFrame("response", last.frame.id, NoMethod, NoResult, -32000,
                                  last.caught)>>
        /\ last.raised = ""
        /\ StillReading

\* C9: while the session is Open a command gets a Response if and only if it
\* carried an id: one Response with that id when it did, no frame when it
\* did not; in both cases the read loop goes on
C9_ResponseIffId ==
    (Handled /\ ws = "OPEN" /\ IsCommand(last.frame)) =>
        /\ last.frame.id # Absent =>
              /\ Len(last.sent) = 1
              /\ last.sent[1].kind = "response"
              /\ last.sent[1].id = last.frame.id
        /\ last.frame.id = Absent => last.sent = <<>>
        /\ last.raised = ""
        /\ StillReading

\* C10: a malformed frame is reported to the peer: a frame is written in
\* answer to it, and the session stays Open and goes on reading
C10_MalformedReported ==
    (Handled /\ ws = "OPEN" /\ last.frame \in MalformedFrames) =>
        /\ last.sent # <<>>
        /\ StillReading

IsSendCommand(f) ==
    IsCommand(f) /\ f.method = "send" /\ f.params.dict /\ f.params.to # ""

IsSendCall(o) == o.op \in {"send_file", "send_message"}
IsFileCall(o) == o.op = "send_file"

\* C11: a send command with a 'to' gives the files to the backend in list
\* order before any text; the first file that fails ends the command with
\* that failure's error, no later file and no text being sent; the text is
\* given to the backend exactly when it is non-empty and no file failed; the
\* result is {ok: true} exactly when every step attempted succeeded
C11_FilesThenText ==
    (Handled /\ IsSendCommand(last.frame)) =>
        LET files == last.frame.params.files
            sends == SelectSeq(last.backend, IsSendCall)
            fileSends == SelectSeq(sends, IsFileCall)
            k == Len(fileSends)
            failed == k > 0 /\ ~fileSends[k].ok
            textSent == Len(sends) > k
        IN  /\ k <= Len(files)
            /\ Len(sends) <= k + 1
            /\ \A i \in 1..k : sends[i] = fileSends[i] /\ fileSends[i].arg = files[i]
            /\ \A i \in 1..(k - 1) : fileSends[i].ok
            /\ failed => ~textSent /\ last.result = OkResult(FALSE, fileSends[k].error)
            /\ ~failed => k = Len(files)
            /\ textSent <=> (last.frame.params.text # "" /\ ~failed)
            /\ last.result.ok <=> \A i \in 1..Len(sends) : sends[i].ok
            /\ last.result.ok => last.result = OkResult(TRUE, "")

\* C11 witness: of two files the second failed, and the text was not sent
C11_Witness ==
    /\ Handled
    /\ IsSendCommand(last.frame)
    /\ last.frame.params.text # ""
    /\ Len(last.frame.params.files) = 2
    /\ LET sends == SelectSeq(last.backend, IsSendCall) IN
          /\ Len(sends) = 2
          /\ sends[1].ok
          /\ ~sends[2].ok
    /\ ~last.result.ok

MissingParams(f) ==
    CASE f.method = "send" -> IF f.params.to = "" THEN {"to"} ELSE {}
      [] f.method = "sendFile" ->
            (IF f.params.to = "" THEN {"to"} ELSE {})
            \cup (IF f.params.filePath = "" THEN {"filePath"} ELSE {})
      [] f.method \in {"addListen", "removeListen"} ->
            IF f.params.chat = "" THEN {"chat"} ELSE {}
      [] OTHER -> {}

LacksParam(f) == IsCommand(f) /\ f.params.dict /\ MissingParams(f) # {}

\* what C13 says of a command that lacks a parameter, but for the error text:
\* a result and no error, no backend operation, the listener set untouched
MissingParamOutcome ==
    /\ last.result.tag = "ok"
    /\ ~last.result.ok
    /\ last.caught = ""
    /\ \A i \in 1..Len(last.sent) :
          last.sent[i] = OutFrame("response", last.frame.id, NoMethod, last.result, 0, "")
    /\ last.backend = <<>>
    /\ listenChats = last.chatsBefore

\* C13: a send, sendFile, addListen or removeListen command that lacks a
\* mandatory parameter answers the result {ok: false, error: "Missing
\* '<param>' parameter"} with the name of a parameter it lacks, as a result
\* and not as an error; no backend operation is invoked and the listener set
\* is unchanged
C13_MissingParamNamed ==
    (Handled /\ LacksParam(last.frame)) =>
        /\ MissingParamOutcome
        /\ \E param \in MissingParams(last.frame) :
              last.result.error = "Missing '" \o param \o "' parameter"

\* C13 as amended: the same, but sendFile answers "Missing 'to' or 'filePath'
\* parameter" whichever of the two it lacks
C13_MissingParamAmended ==
    (Handled /\ LacksParam(last.frame)) =>
        /\ MissingParamOutcome
        /\ last.result.error =
              IF last.frame.method = "sendFile"
              THEN "Missing 'to' or 'filePath' parameter"
              ELSE "Missing '" \o (CHOOSE param \in MissingParams(last.frame) : TRUE)
                      \o "' parameter"

\* C13 witness: a sendFile command with a 'to' and no 'filePath' was answered
C13_Witness ==
    /\ Handled
    /\ last.frame.method = "sendFile"
    /\ MissingParams(last.frame) = {"filePath"}
    /\ last.sent = <<OutFrame("response", last.frame.id, NoMethod,
                              OkResult(FALSE, "Missing 'to' or 'filePath' parameter"),
                              0, "")>>

IsMessageNotification(f) == f.kind = "notification" /\ f.method = "wechat.message"

\* C14: no message notification is ever sent for an event that is
\* self-originated: such an event is filtered when it arrives, is never handed
\* to the event loop, and no frame written carries it, whatever the session
\* is doing
C14_SelfNeverForwarded ==
    /\ \A k \in 1..Len(eventLog) :
          eventLog[k].ev.attr = "self" => eventLog[k].fate = "filtered"
    /\ \A i \in 1..Len(loopTasks) : eventLog[loopTasks[i].seq].ev.attr # "self"
    /\ \A i \in 1..Len(last.sent) :
          IsMessageNotification(last.sent[i]) =>
              /\ ~last.sent[i].params.isSelf
              /\ eventLog[last.sent[i].params.seq].ev.attr # "self"

\* C14 witness: every event fed was self-originated, as many as the run
\* allows, while the session is Open
C14_Witness ==
    /\ Len(eventLog) = MaxEvents
    /\ \A k \in 1..Len(eventLog) : eventLog[k].ev.attr = "self"
    /\ ws = "OPEN"
    /\ last.act = "OnMessage"
    /\ last.msg.isSelf

\* the forwarded text is the message's content (it is not synthesized)
ForwardsContent(type) == type \notin {"voice", "image", "video", "file"}

\* C15: a message whose raw content contains the token @<ownName> is
\* forwarded with isAtMe true and a text that does not contain the token; a
\* message whose content does not contain it is forwarded with isAtMe false
\* and its content as it was
C15_MentionStripped ==
    \A i \in 1..Len(last.sent) :
        IsMessageNotification(last.sent[i]) =>
            LET data == last.sent[i].params
                raw == eventLog[data.seq].ev.content
            IN  IF Contains(raw, AtToken)
                THEN data.isAtMe /\ ~Contains(data.text, AtToken)
                ELSE ~data.isAtMe /\ (ForwardsContent(data.type) => data.text = raw)

\* C19: while the MediaServer is running, every media URL the bridge emits
\* (in a message notification, in the connected notification, in the result
\* of getMediaInfo) names the port the MediaServer is bound to
C19_UrlsNameBoundPort ==
    mediaUp =>
        \A i \in 1..Len(last.sent) :
            LET f == last.sent[i] IN
            /\ (f.kind = "notification" /\ f.method = "wechat.connected") =>
                  f.params.mediaPort = serverPort
            /\ (IsMessageNotification(f) /\ f.params.mediaPort # 0) =>
                  f.params.mediaPort = serverPort
            /\ (f.kind = "response" /\ f.result.tag = "mediaInfo") =>
                  f.result.port = serverPort

\* C20: a response or a notification produced while the session is not Open
\* is not written, and it is not kept either: a dropped message stays
\* dropped, nothing waiting for the event loop was dropped before, and every
\* frame written is the one the step that writes it produced (entering Open
\* writes the connected notification and nothing else)
C20_DroppedNotQueued ==
    /\ []((ws # "OPEN" /\ last.act \in {"HandleFrame", "PushMessage"}) =>
            last.sent = <<>>)
    /\ []((ws # "OPEN" /\ last.act = "PushMessage") =>
            eventLog[last.msg.seq].fate = "dropped")
    /\ [](\A i \in 1..Len(loopTasks) : eventLog[loopTasks[i].seq].fate = "scheduled")
    /\ [](last.act \in {"InitConnectDone", "ConnectDone"} =>
            last.sent \in {<<>>, <<ConnectedNotification>>})
    /\ [](\A i \in 1..Len(last.sent) :
            /\ IsMessageNotification(last.sent[i]) =>
                  /\ last.act = "PushMessage"
                  /\ last.sent[i] = MessageNotification(last.msg)
                  /\ eventLog[last.msg.seq].fate = "sent"
            /\ last.sent[i].kind = "response" =>
                  /\ last.act = "HandleFrame"
                  /\ last.sent[i].id = last.frame.id)
    /\ [][\A k \in 1..Len(eventLog) :
            eventLog[k].fate = "dropped" => eventLog'[k].fate = "dropped"]_vars

\* C20 witness: a message was dropped while the session was down, and the
\* session has just become Open again
C20_Witness ==
    /\ \E k \in 1..Len(eventLog) : eventLog[k].fate = "dropped"
    /\ ws = "OPEN"
    /\ last.act = "ConnectDone"
    /\ last.sent = <<ConnectedNotification>>

IsListenCommand(f, method) ==
    IsCommand(f) /\ f.method = method /\ f.params.dict /\ f.params.chat # ""

IsSubscribe(o) == o.op = "AddListenChat"
IsUnsubscribe(o) == o.op = "RemoveListenChat"

\* C16: addListen of a name that is in the listener set already (a second
\* addListen of it) answers {ok: true}, creates no backend subscription and
\* leaves the set as it is; removeListen of a name that is not in the set
\* answers {ok: true}, invokes no backend removal and leaves the set as it is
C16_ListenIdempotent ==
    /\ (Handled /\ IsListenCommand(last.frame, "addListen")
           /\ last.frame.params.chat \in last.chatsBefore) =>
          /\ last.result = OkResult(TRUE, "")
          /\ SelectSeq(last.backend, IsSubscribe) = <<>>
          /\ listenChats = last.chatsBefore
    /\ (Handled /\ IsListenCommand(last.frame, "removeListen")
           /\ last.frame.params.chat \notin last.chatsBefore) =>
          /\ last.result = OkResult(TRUE, "")
          /\ SelectSeq(last.backend, IsUnsubscribe) = <<>>
          /\ listenChats = last.chatsBefore

\* the ports among those start() tries that no other process holds
FreePorts == {p \in PortsToTry : p \notin occupied}

\* the least port of a non-empty set
Least(ports) == CHOOSE p \in ports : \A q \in ports : p <= q

\* C17: a GET /media/{path} whose path resolves outside the media root is
\* answered 403 and no file is opened; the body of a 200 response is read
\* from a regular file that lies under the media root
C17_NoTraversal ==
    http.status # 0 =>
        /\ ~IsUnder(Resolve(<<>>, Join(MediaRoot, http.path)), MediaRoot) =>
              http.status = 403 /\ ~http.opened
        /\ http.status = 200 =>
              /\ http.opened
              /\ Kind(http.file) = "file"
              /\ IsUnder(http.file, MediaRoot)
        /\ http.opened => http.status = 200

\* C17 witness: a path that climbs out of the root with ".." to a file that
\* exists was refused
C17_Witness ==
    /\ http.path = <<"..", "s">>
    /\ http.status = 403
    /\ ~http.opened

\* C18: MediaServer.start() tries the preferred port and the 5 after it in
\* increasing order and binds the first that is free; it fails, with nothing
\* bound, exactly when all six are occupied; when it succeeds the port the
\* server reports is the port it bound
C18_PortFallback ==
    last.act = "Start" =>
        LET m == last.media IN
        /\ m.ok <=> FreePorts # {}
        /\ m.ok => /\ m.bound = Least(FreePorts)
                   /\ m.port = m.bound
                   /\ serverPort = m.bound
                   /\ m.tried = [i \in 1..(m.bound - MediaPort + 1) |-> MediaPort + i - 1]
        /\ ~m.ok => /\ m.bound = 0
                    /\ ~mediaUp
                    /\ m.tried = [i \in 1..PortsTried |-> MediaPort + i - 1]
        /\ (MediaPort \in occupied /\ MediaPort + 1 \notin occupied) =>
              m.ok /\ m.bound = MediaPort + 1

\* C18 witness: the preferred port was occupied, the next one free, and the
\* server runs on the next one
C18_Witness ==
    /\ last.act = "Start"
    /\ MediaPort \in occupied
    /\ MediaPort + 1 \notin occupied
    /\ mediaUp
    /\ serverPort = MediaPort + 1

\* the step makes the session Open
EntersOpen == ws # "OPEN" /\ ws' = "OPEN"

IsConnectedNotification(f) == f.kind = "notification" /\ f.method = "wechat.connected"

\* C21: the step that makes the session Open, a first connection or a
\* reconnection, writes the connected notification and nothing else; every
\* other frame (a response, a message or status notification) is written by
\* a later step on a connection that is Open already and is no connected
\* notification; an inbound frame is dispatched only on a connection that
\* was entered before
C21_ConnectedFirst ==
    /\ [][EntersOpen => last'.sent = <<ConnectedNotification'>>]_vars
    /\ [][(~EntersOpen /\ last'.sent # <<>>) =>
            /\ ws = "OPEN"
            /\ \A i \in 1..Len(last'.sent) : ~IsConnectedNotification(last'.sent[i])]_vars
    /\ [][last'.act = "HandleFrame" => (~EntersOpen /\ ws \in {"OPEN", "CLOSING"})]_vars
    /\ [](last.act \in {"OnMessage", "StopBegin", "StopClosed", "LoopEnd",
                        "SleepDone", "InitSleepDone", "ConnectionLost", "Start"} =>
            last.sent = <<>>)

\* C21 witness: a reconnection has just made the session Open and written the
\* connected notification, while a message push and a status push wait for
\* the event loop
C21_Witness ==
    /\ last.act = "ConnectDone"
    /\ ws = "OPEN"
    /\ last.sent = <<ConnectedNotification>>
    /\ loopTasks # <<>>
    /\ statusTasks # <<>>

Attempting == startPc \in {"init_connecting", "connecting"}
AttemptFailed == startPc \in {"init_sleep", "sleep"} /\ last.act \in {"InitConnectDone", "ConnectDone"}
StopCalled == stopPc # "idle"

\* C22: while stop() has not been called a failed connect attempt is followed
\* by another attempt, however many have failed; the attempt that follows a
\* failed one starts after the same delay, the reconnect delay, the initial
\* attempts included; and with a Gateway that accepts connections the session
\* becomes Open
C22_RetryForever ==
    /\ AttemptFailed ~> (Attempting \/ StopCalled)
    /\ [][(AttemptFailed /\ ~StopCalled') => startPc' \notin {"returned", "idle"}]_vars
    /\ []((last.began /\ last.act \in {"InitSleepDone", "SleepDone"}) =>
            last.slept = ReconnectDelay)
    /\ Attempting ~> (ws = "OPEN" \/ StopCalled)

\* wechat.connect() failed: the start-up error that ends start()
BackendStartFailed == wxStatus = "error"

\* C23: start() has returned only when stop() has been called or when the
\* backend could not be connected at start-up; no failed connect, lost
\* connection or failed write ends start()
C23_StartReturnsOnlyOnStop ==
    startPc = "returned" => (StopCalled \/ BackendStartFailed)

\* C23 witness: the connection of the reconnect loop broke, stop() has not
\* been called, and start() is in its backoff sleep
C23_Witness ==
    /\ last.act = "LoopEnd"
    /\ closeKind = "error"
    /\ ~StopCalled
    /\ startPc = "sleep"

\* the state stop() leaves: no reconnecting, no connection, no media
\* listener, no backend
Stopped ==
    /\ ~running
    /\ ws \notin {"OPEN", "CLOSING"}
    /\ ~mediaUp
    /\ listeners = {}
    /\ ~wx
    /\ wxStatus = "disconnected"

\* the step is the end of a stop() call
StopReturned ==
    \/ last.act \in {"StopBegin", "StopClosed"} /\ stopPc = "done"
    \/ last.act \in {"StopAgainBegin", "StopAgainClosed"} /\ stopAgain = "done"

Sleeping == startPc \in {"init_sleep", "sleep"}

\* C25: once stop() has been called start() returns: a backoff sleep that is
\* in progress when stop() runs ends with it, and start() does not stay in
\* the read loop of a connection that became Open after stop()
C25_StopEndsStart ==
    /\ StopCalled ~> (startPc = "returned")
    /\ [][(~StopCalled /\ StopCalled' /\ Sleeping) => ~Sleeping']_vars
    /\ [][(StopCalled /\ EntersOpen) => startPc' = "returned"]_vars

Escapes(path) == ~IsUnder(Resolve(<<>>, Join(MediaRoot, path)), Resolve(<<>>, MediaRoot))
Target(path) == Walk(<<>>, Join(MediaRoot, path))

C27_CorsOnEveryResponse ==
    http.status # 0 => http.cors = "*"

\* C28: when MediaServer.stop() has returned no listener of the server
\* remains, whatever start() and stop() calls came before (stop() with no
\* successful start() before it and a repeated stop() included), and a
\* start() that follows and finds the port the server was on free binds that
\* port again
C28_StopFreesPort ==
    /\ [](last.act = "ServerStop" => (listeners = {} /\ ~mediaUp))
    /\ [][(last.act = "ServerStop" /\ last'.act = "ServerStart"
             /\ serverPort \notin occupied') =>
            (mediaUp' /\ serverPort' = serverPort /\ listeners' = {serverPort})]_vars

\* MediaServer.start() failed when the bridge started: every port it tries
\* was occupied
MediaFailed == startPc # "idle" /\ PortsToTry \subseteq occupied

\* C29: when MediaServer.start() fails the bridge goes on starting: the
\* backend is connected as it would have been, the first Gateway connect is
\* attempted, start() returns only for the reasons it returns for with a
\* running MediaServer, and on the Open session commands are dispatched and
\* answered
C29_MediaFailureNotFatal ==
    MediaFailed =>
        /\ ~mediaUp
        /\ last.act = "Start" =>
              /\ ~last.media.ok
              /\ wx => (startPc = "init_connecting" /\ last.began)
              /\ ~wx => BackendStartFailed
        /\ startPc = "returned" => (StopCalled \/ BackendStartFailed)
        /\ (Handled /\ ws = "OPEN" /\ IsCommand(last.frame)) =>
              /\ last.frame.method = "send" => Len(last.backend) > 0
              /\ last.sent = <<OutFrame("response", last.frame.id, NoMethod,
                                        last.result, 0, "")>>

\* C29 witness: with no MediaServer, a send command was executed by the
\* backend and answered {ok: true}
C29_Witness ==
    /\ MediaFailed
    /\ Handled
    /\ ws = "OPEN"
    /\ last.frame = SendText
    /\ last.result = OkResult(TRUE, "")
    /\ Len(last.sent) = 1

IsPing(f) == IsCommand(f) /\ f.method = "ping" /\ f.id # Absent

\* C30: a ping request is answered, whether the backend is connected or not,
\* by one Response with the request's id and the result {pong, timestamp},
\* never by an error, and no backend operation is invoked
C30_PingAlwaysAnswered ==
    (Handled /\ ws = "OPEN" /\ IsPing(last.frame)) =>
        /\ last.sent = <<OutFrame("response", last.frame.id, NoMethod, Tagged("pong"),
                                  0, "")>>
        /\ last.caught = ""
        /\ last.backend = <<>>

\* the connection self.ws holds is live
Live == ws \in {"OPEN", "CLOSING"}

\* C31: while a connect attempt is outstanding no connection is live, so a
\* connection that becomes live replaces a dead one and there is never more
\* than one; an attempt is started only by a step of start() that finds no
\* attempt outstanding and no live connection
C31_OneConnection ==
    /\ [](Attempting => ~Live)
    /\ [](last.began => (Attempting /\ ~Live))
    /\ [][last'.began => (~Attempting /\ ~Live)]_vars
    /\ [][(Attempting /\ ~Attempting') =>
            last'.act \in {"InitConnectDone", "ConnectDone"}]_vars

\* C31 witness: a reconnect attempt is outstanding after the connection was
\* lost
C31_Witness ==
    /\ startPc = "connecting"
    /\ ws = "CLOSED"
    /\ last.began

\* the steps of coroutines of the event loop that write to the connection
WritingSteps == {"InitConnectDone", "ConnectDone", "HandleFrame", "PushMessage",
                 "PushStatus"}

SlowCommand == Busy /\ handling.method = "send"

\* C33: while the handler of a send has not finished, the dispatcher can take
\* up a ping that arrived after it, and a message push that was handed to the
\* loop can run, without waiting for the send to complete
C33_SlowCommandDoesNotBlock ==
    /\ (SlowCommand /\ wire # <<>> /\ IsPing(Head(wire))) => ENABLED HandleBegin
    /\ (SlowCommand /\ loopTasks # <<>>) => ENABLED PushMessage

\* the arrival numbers 1..n in their order
RECURSIVE UpTo(_)
UpTo(n) == IF n = 0 THEN <<>> ELSE Append(UpTo(n - 1), n)

IsResponseFrame(f) == f.kind = "response"

\* C34: the frames are taken up in the order of their arrival, none skipped,
\* and a frame is taken up only when the handler of the one before it is
\* through; so the response a step writes answers the frame taken up last,
\* and no frame that arrived after it has been taken up
C34_FramesInOrder ==
    /\ [](handled = UpTo(Len(handled)))
    /\ [](Len(handled) + Len(wire) = arrivals)
    /\ [][handled' # handled => (~Busy /\ Busy' /\ handling' = Head(wire))]_vars
    /\ []((last.sent # <<>> /\ IsResponseFrame(last.sent[1])) =>
            /\ handled # <<>>
            /\ last.sent[1].id = JNum(handled[Len(handled)]))

\* C34 witness: the response to the second frame is written, after the first
\* frame, a send, was handled
C34_Witness ==
    /\ last.act = "HandleFrame"
    /\ last.frame.method = "ping"
    /\ last.sent # <<>>
    /\ last.sent[1].id = JNum(2)
    /\ handled = <<1, 2>>

\* the events whose push has not run yet
Scheduled == {i \in 1..Len(eventLog) : eventLog[i].fate = "scheduled"}

\* C35: the pushes handed to the loop are those of the events not consumed
\* yet, one each and in the order of the events; a push consumes the oldest
\* of them, writes its one notification if the session is Open and nothing
\* otherwise; an event that was consumed is never consumed again, and no
\* other step writes a message notification
C35_PushedOnceInOrder ==
    /\ [](/\ Len(loopTasks) = Cardinality(Scheduled)
          /\ \A i \in 1..Len(loopTasks) : loopTasks[i].seq \in Scheduled
          /\ \A i, j \in 1..Len(loopTasks) : i < j => loopTasks[i].seq < loopTasks[j].seq)
    /\ [][last'.act = "PushMessage" =>
            /\ Scheduled # {}
            /\ last'.msg.seq \in Scheduled
            /\ \A i \in Scheduled : last'.msg.seq <= i
            /\ Scheduled' = Scheduled \ {last'.msg.seq}
            /\ last'.sent = IF ws = "OPEN" THEN <<MessageNotification(last'.msg)>>
                             ELSE <<>>]_vars
    /\ [][\A i \in 1..Len(eventLog) :
            eventLog[i].fate # "scheduled" => eventLog'[i] = eventLog[i]]_vars
    /\ []((\E i \in 1..Len(last.sent) : IsMessageNotification(last.sent[i])) =>
            last.act = "PushMessage")

\* C35 witness: the notification of the second event is written on the Open
\* session, after the push of the first event found the session not Open
C35_Witness ==
    /\ last.act = "PushMessage"
    /\ last.msg.seq = 2
    /\ last.sent = <<MessageNotification(last.msg)>>
    /\ eventLog[1].fate = "dropped"

\* the pieces that are present, in their order: each entry of parts is a
\* pair of whether the piece is present and the piece
Present(parts) ==
    LET sel == SelectSeq(parts, LAMBDA p : p[1]) IN [i \in 1..Len(sel) |-> sel[i][2]]

\* pieces with a single space between each two
RECURSIVE Spaced(_)
Spaced(pieces) ==
    IF Len(pieces) = 0 THEN <<>>
    ELSE IF Len(pieces) = 1 THEN pieces
    ELSE Spaced(SubSeq(pieces, 1, Len(pieces) - 1)) \o <<" ", pieces[Len(pieces)]>>

\* the text of C36 for a message
ExpectedText(msg) ==
    IF msg.msgType = "voice"
    THEN IF msg.voiceText # <<>> THEN <<"[voice] ">> \o msg.voiceText
         ELSE <<"[voice](no text)">>
    ELSE IF msg.msgType \in {"image", "video"}
    THEN Spaced(Present(<<
             <<TRUE, IF msg.msgType = "image" THEN "[image]" ELSE "[video]">>,
             <<msg.mediaUrl # 0, IF msg.msgType = "image" THEN "image-url"
                                 ELSE "video-url">>,
             <<msg.mediaPath, "local-path">> >>))
    ELSE IF msg.msgType = "file"
    THEN Spaced(Present(<< <<TRUE, "[file]">>,
                           <<msg.fileName, "file-name">>,
                           <<msg.fileSize, "file-size">>,
                           <<msg.mediaUrl # 0, "download-url">>,
                           <<msg.mediaPath, "local-path">> >>))
    ELSE msg.content

\* C36: the text of a message notification is the text the kind and the
\* fields of the message determine: the content for text and for every kind
\* without a rule of its own; the voice tag with the transcript, or with the
\* marker when there is none; the tag of the kind followed by the parts that
\* are present, in the fixed order, a single space between each two
C36_TextOfKind ==
    \A i \in 1..Len(last.sent) :
        IsMessageNotification(last.sent[i]) =>
            last.sent[i].params.text = ExpectedText(last.msg)

\* C36 witness: the notification of a file message with all its parts
C36_Witness ==
    /\ last.act = "PushMessage"
    /\ last.msg.msgType = "file"
    /\ last.sent # <<>>
    /\ last.sent[1].params.text = <<"[file]", " ", "file-name", " ", "file-size", " ",
                                    "download-url", " ", "local-path">>

Attempted(helper) == \E i \in 1..Len(last.backend) : last.backend[i].op = helper

\* C37: when a backend event has been turned into a message, the download
\* was attempted exactly if the kind is image, video or file, and the
\* transcription exactly if the kind is voice, never both; for every other
\* kind nothing was attempted and the message has no media URL, no local
\* path and no transcript, whatever the event would have yielded
C37_AttemptsByKind ==
    last.act = "OnMessage" =>
        LET ev == eventLog[Len(eventLog)].ev IN
        /\ Attempted("_download_media") <=> ev.type \in {"image", "video", "file"}
        /\ Attempted("_convert_voice_to_text") <=> ev.type = "voice"
        /\ ~(Attempted("_download_media") /\ Attempted("_convert_voice_to_text"))
        /\ Len(last.backend) <= 1
        /\ ev.type \notin {"image", "video", "file"} =>
               (last.msg.mediaUrl = 0 /\ ~last.msg.mediaPath)
        /\ ev.type # "voice" => last.msg.voiceText = <<>>

\* C37 witness: a link message whose download and transcription would have
\* succeeded was turned into a message, with neither attempted
C37_Witness ==
    /\ last.act = "OnMessage"
    /\ last.msg.msgType = "link"
    /\ eventLog[1].ev.download = "ok"
    /\ eventLog[1].ev.transcript # <<>>
    /\ last.backend = <<>>

\* the pushes handed to the loop by the step
NewStatusTasks ==
    IF last'.act = "PushStatus" THEN <<>>
    ELSE SubSeq(statusTasks', Len(statusTasks) + 1, Len(statusTasks'))

IsStatusNotification(f) == f.kind = "notification" /\ f.method = "wechat.status"

\* C38: a step hands a status push to the loop only if it changes the
\* status, one push for each change it makes, each carrying the status set,
\* so a step that sets the status to the value it has hands over nothing; a
\* push writes, if the session is Open, one status notification whose
\* params are the status it carries (and the time), and nothing otherwise;
\* no other step writes a status notification
C38_StatusOnlyOnChange ==
    /\ [][LET new == NewStatusTasks
              chain == <<wxStatus>> \o new
          IN  /\ wxStatus' = wxStatus => new = <<>>
              /\ \A i \in 1..Len(new) : chain[i] # chain[i + 1]
              /\ wxStatus' = chain[Len(chain)]]_vars
    /\ [][last'.act = "PushStatus" =>
            /\ statusTasks' = Tail(statusTasks)
            /\ last'.sent = IF ws = "OPEN"
                             THEN <<Notification("wechat.status",
                                                 [status |-> Head(statusTasks)])>>
                             ELSE <<>>]_vars
    /\ []((\E i \in 1..Len(last.sent) : IsStatusNotification(last.sent[i])) =>
            last.act = "PushStatus")

\* C38 witness: the second stop() has set the status to "disconnected",
\* which it was, and the push of that last change has written its one
\* notification on the session that became Open again
C38_Witness ==
    /\ stopAgain = "done"
    /\ last.act = "PushStatus"
    /\ last.sent = <<StatusNotification("disconnected")>>
    /\ statusTasks = <<>>

ListenCommand == Handled /\ IsCommand(last.frame) /\ last.frame.method \in {"addListen", "removeListen"}

\* the chats whose subscription the step's backend operations added, and
\* those whose subscription they removed
Subscribed == {last.backend[i].arg : i \in {j \in 1..Len(last.backend) : last.backend[j].op = "AddListenChat" /\ last.backend[j].ok}}
Unsubscribed == {last.backend[i].arg : i \in {j \in 1..Len(last.backend) : last.backend[j].op = "RemoveListenChat" /\ last.backend[j].ok}}

\* C39: the listener set holds the chats with a live backend subscription:
\* addListen and removeListen change it by exactly the subscriptions the
\* backend added and removed, and not at all when they fail; and when the
\* backend is not connected (before connect(), and after disconnect() has
\* removed the subscriptions) the set is empty
C39_ListenerSetIsLive ==
    /\ ListenCommand =>
          /\ listenChats = (last.chatsBefore \cup Subscribed) \ Unsubscribed
          /\ (last.result.tag = "ok" /\ ~last.result.ok) => listenChats = last.chatsBefore
    /\ ~wx => listenChats = {}

\* the path names a regular file, without ".." in its resolved form, that
\* lies in an allowed directory when an allow-list is configured
Sendable(path) ==
    /\ path \in {"a.png", "b.png", "out.png"}
    /\ allowedDirs # {} => \E d \in allowedDirs : FileDir(path) = d

\* C40: the backend's file send is invoked only while the backend is
\* connected and only for a path that is valid; a send_file call made while
\* the backend is not connected, or for a path where nothing exists, that is
\* no regular file, or that lies outside the allowed directories, fails with
\* an error message, and no file send follows it
C40_SendFileValidated ==
    Handled =>
        \A i \in 1..Len(last.backend) :
            LET op == last.backend[i] IN
            /\ op.op = "SendFiles" => (wx /\ Sendable(op.arg))
            /\ (op.op = "send_file" /\ (~wx \/ ~Sendable(op.arg))) =>
                  /\ ~op.ok
                  /\ op.error # ""
                  /\ i = Len(last.backend)
                  /\ last.result = OkResult(FALSE, op.error)

\* C40 witness: with an allow-list, a send of two files: the first, inside
\* the allowed directory, went to the backend, the second, outside it, was
\* refused
C40_Witness ==
    /\ Handled
    /\ allowedDirs = {"ok"}
    /\ Len(last.backend) = 3
    /\ last.backend[2] = Op("SendFiles", "a.png", TRUE, "")
    /\ last.backend[3].op = "send_file"
    /\ last.backend[3].arg = "out.png"
    /\ ~last.backend[3].ok

====
